---- MODULE Spec2Model ----
(***************************************************************************)
(* Model of src/main.py (Google Drive -> Google Photos sync): the daily    *)
(* quota ledger (daily_quota.json), the quota gates, the error-text        *)
(* classifiers, the remote-call executor run_cmd, upload_file and the      *)
(* main loop over the file listing.                                        *)
(*                                                                         *)
(* Units: request counts are plain integers.  Byte volumes are counted in  *)
(* MiB (2^20 bytes) because UPLOAD_QUOTA_LIMIT = 53 687 091 200 does not   *)
(* fit TLC's 32-bit integers; every threshold of check_upload_quota is a   *)
(* whole number of MiB, and Python's float comparison percentage >= 0.95   *)
(* agrees with the integer comparison 100 * n >= 95 * limit at the         *)
(* boundary values.                                                        *)
(***************************************************************************)
EXTENDS Integers, Sequences, FiniteSets, TLC

VARIABLES
    day,                  \* get_current_pst_date(): the reference-timezone day
    file,                 \* contents of DAILY_QUOTA_FILE (daily_quota.json)
    INITIAL_API_REQUESTS, \* os.getenv("INITIAL_API_REQUESTS"), None when unset
    steps,                \* number of mutator calls made so far (bounded)
    obs,                  \* what the last completed operation saw and returned
    message,              \* the text handed to the error classifiers
    pc,                   \* where the process is; "idle": no process runs
    run,                  \* number of processes started so far
    stateFile,            \* contents of STATE_FILE (state.json)
    failedFile,           \* contents of FAILED_FILE (failed.json)
    DONE,                 \* the in-memory DONE set
    FAILED,               \* the in-memory FAILED mapping
    KNOWN_ALBUMS,         \* albums already used in this process
    sync_age,             \* time.time() - LAST_SYNC_TIME, saturated at
                          \* SYNC_INTERVAL_SECONDS; None: LAST_SYNC_TIME is None
    LAST_SYNC_UPLOADS,    \* successful operations since the last sync
    METRICS,              \* the counters of METRICS the run summary reports
    summary,              \* contents of this run's SUMMARY_PATH
    files,                \* what list_drive_files() returned
    i,                    \* position of main's loop in files
    processed_count,      \* main's processed_count
    cur,                  \* the file upload_file is working on
    rc,                   \* the frame of the run_cmd invocation in progress
    hist                  \* history: what was persisted when the run started,
                          \* and the files passed to upload_file in this run

vars ==
    <<day, file, INITIAL_API_REQUESTS, steps, obs, message, pc, run,
      stateFile, failedFile, DONE, FAILED, KNOWN_ALBUMS, sync_age,
      LAST_SYNC_UPLOADS, METRICS, summary, files, i, processed_count, cur,
      rc, hist>>

ledgerVars == <<day, file, INITIAL_API_REQUESTS, steps>>

\* the state of the sync process
programVars ==
    <<pc, run, stateFile, failedFile, DONE, FAILED, KNOWN_ALBUMS, sync_age,
      LAST_SYNC_UPLOADS, METRICS, summary, files, i, processed_count, cur,
      rc, hist>>

\* the state outside the ledger
nonLedgerVars == <<message, programVars>>

\* no operation has completed yet
NoObs == [op |-> "none"]

-----------------------------------------------------------------------------
(* Program constants (src/main.py:55-60).                                  *)

API_QUOTA_LIMIT == 10000

\* UPLOAD_QUOTA_LIMIT = 53_687_091_200 bytes = 51200 MiB
UPLOAD_QUOTA_LIMIT == 51200

\* WARNING_THRESHOLD = 0.8, CRITICAL_THRESHOLD = 0.9, STOP_THRESHOLD = 0.95,
\* kept as percentages
WARNING_THRESHOLD == 80

CRITICAL_THRESHOLD == 90

STOP_THRESHOLD == 95

SAFETY_RESERVE == 300

\* Python's None for "no value": get_real_quota_usage() returning None, the
\* environment variable being unset.
None == -1

-----------------------------------------------------------------------------
(* Bounds of the model.                                                    *)

\* days are 0..MaxDay
MaxDay == 2

\* at most MaxSteps mutator calls in one behaviour
MaxSteps == 3

Days == 0..MaxDay

\* request counts the ledger, the monitoring API and the override start from
RequestSeeds == {0, 9000, 9400, 9499, 9699, 9750}

\* projected amounts handed to check_api_quota
NeededSet == {0, 1, 150}

\* counts handed to decrement_api_requests
CountSet == {0, 1, 9750}

\* uploaded volumes (MiB) the ledger starts from, and file sizes
ByteSeeds == {0, 48000}

SizeSet == {640, 48640}

\* what get_real_quota_usage() can return: None, or a total > 0
RealUsage == {None, 7, 9750}

\* values of the INITIAL_API_REQUESTS override (None: unset)
InitialSet == {None, 9600}

Sources == {"none", "local", "api", "manual"}

-----------------------------------------------------------------------------
(* The ledger file.  kind "absent": the file does not exist; "corrupt": it *)
(* exists but json.load or the .get calls on it raise; "ok": a JSON object.*)
(* quota_source "none" stands for a record without the quota_source key.   *)
(* A record without the api_requests or uploaded_bytes key reads as 0      *)
(* through .get(key, 0) and is represented by the value 0.                 *)

QuotaData(d, api, bytes, src) ==
    [kind |-> "ok", date |-> d, api_requests |-> api,
     uploaded_bytes |-> bytes, quota_source |-> src]

AbsentFile ==
    [kind |-> "absent", date |-> 0, api_requests |-> 0,
     uploaded_bytes |-> 0, quota_source |-> "none"]

CorruptFile ==
    [kind |-> "corrupt", date |-> 0, api_requests |-> 0,
     uploaded_bytes |-> 0, quota_source |-> "none"]

\* load_daily_quota that keeps the counters of a record of another day and
\* only re-dates it (the reset on a new day forgotten).
load_daily_quota_carry(f, d, real, init) ==
    IF f.kind = "ok"
    THEN [api_requests |-> f.api_requests, uploaded_bytes |-> f.uploaded_bytes,
          file |-> [f EXCEPT !.date = d]]
    ELSE [api_requests |-> 0, uploaded_bytes |-> 0,
          file |-> QuotaData(d, 0, 0, "local")]

\* load_daily_quota that takes the manual override whenever it is set, be it
\* lower than the persisted count
load_daily_quota_override_always(f, d, real, init) ==
    IF real # None
    THEN IF f.kind = "ok" /\ f.date = d
         THEN [api_requests |-> real, uploaded_bytes |-> f.uploaded_bytes,
               file |-> [f EXCEPT !.api_requests = real,
                                  !.quota_source = "api"]]
         ELSE [api_requests |-> real, uploaded_bytes |-> 0,
               file |-> QuotaData(d, real, 0, "api")]
    ELSE IF init # None
    THEN IF f.kind = "ok" /\ f.date = d
         THEN [api_requests |-> init, uploaded_bytes |-> f.uploaded_bytes,
               file |-> [f EXCEPT !.api_requests = init,
                                  !.quota_source = "manual"]]
         ELSE [api_requests |-> init, uploaded_bytes |-> 0,
               file |-> QuotaData(d, init, 0, "manual")]
    ELSE IF f.kind = "ok" /\ f.date = d
    THEN [api_requests |-> f.api_requests, uploaded_bytes |-> f.uploaded_bytes,
          file |-> IF f.quota_source = "none"
                   THEN [f EXCEPT !.quota_source = "local"] ELSE f]
    ELSE [api_requests |-> 0, uploaded_bytes |-> 0,
          file |-> QuotaData(d, 0, 0, "local")]

\* load_daily_quota that gives up on a file it cannot read: zero counters
\* returned, the file left as it is
load_daily_quota_keep_unreadable(f, d, real, init) ==
    IF f.kind = "corrupt"
    THEN [api_requests |-> 0, uploaded_bytes |-> 0, file |-> f]
    ELSE load_daily_quota_override_always(f, d, real, None)

\* load_daily_quota(): f the file, d today's date, real the answer of
\* get_real_quota_usage(), init the manual override.  Returns the pair the
\* function returns and the file it leaves behind.
load_daily_quota(f, d, real, init) ==
    IF f.kind = "ok" /\ f.date = d
    THEN IF real # None
         THEN [api_requests |-> real,
               uploaded_bytes |-> f.uploaded_bytes,
               file |-> [f EXCEPT !.api_requests = real, !.quota_source = "api"]]
         ELSE IF init # None /\ init > f.api_requests
         THEN [api_requests |-> init,
               uploaded_bytes |-> f.uploaded_bytes,
               file |-> [f EXCEPT !.api_requests = init, !.quota_source = "manual"]]
         ELSE [api_requests |-> f.api_requests,
               uploaded_bytes |-> f.uploaded_bytes,
               file |-> IF f.quota_source = "none"
                        THEN [f EXCEPT !.quota_source = "local"]
                        ELSE f]
    ELSE LET api == IF real # None THEN real
                    ELSE IF init # None THEN init ELSE 0
             src == IF real # None THEN "api"
                    ELSE IF init # None THEN "manual" ELSE "local"
         IN [api_requests |-> api, uploaded_bytes |-> 0,
             file |-> QuotaData(d, api, 0, src)]

\* a sync that would start the byte counter again
sync_quota_from_api_zero_bytes(f, d, real) ==
    IF real = None THEN [ok |-> FALSE, file |-> f]
    ELSE [ok |-> TRUE, file |-> QuotaData(d, real, 0, "api")]

\* sync_quota_from_api(): returns whether the sync succeeded and the file.
sync_quota_from_api(f, d, real) ==
    IF real = None THEN [ok |-> FALSE, file |-> f]
    ELSE IF f.kind = "absent"
    THEN [ok |-> TRUE, file |-> QuotaData(d, real, 0, "api")]
    ELSE IF f.kind = "ok" /\ f.date = d
    THEN [ok |-> TRUE,
          file |-> [f EXCEPT !.api_requests = real, !.quota_source = "api"]]
    ELSE [ok |-> FALSE, file |-> f]


\* save_daily_quota(quota_data) as the three mutators call it: a record
\* without the quota_source key.
mutator_record(d, api, bytes) == QuotaData(d, api, bytes, "none")

\* increment_api_request(): d is the date at load_daily_quota, d2 the date
\* get_current_pst_date() gives when the record is written.
increment_api_request(f, d, d2, real, init) ==
    LET q == load_daily_quota(f, d, real, init)
        api_requests == q.api_requests + 1
    IN [ret |-> api_requests, loaded |-> q.api_requests,
        file |-> mutator_record(d2, api_requests, q.uploaded_bytes)]

\* the rollback without its max(0, ...)
no_clamp(n) == n

\* max(0, api_requests - count)
clamp_at_zero(n) == IF n > 0 THEN n ELSE 0

\* decrement_api_requests(count)
decrement_api_requests(f, d, d2, real, init, count) ==
    LET q == load_daily_quota(f, d, real, init)
        api_requests == clamp_at_zero(q.api_requests - count)
    IN [ret |-> api_requests, loaded |-> q.api_requests,
        file |-> mutator_record(d2, api_requests, q.uploaded_bytes)]

\* an increment_upload_bytes that would store what it loaded
increment_upload_bytes_none(f, d, d2, real, init, bytes_count) ==
    LET q == load_daily_quota(f, d, real, init)
    IN [ret |-> q.uploaded_bytes, loaded |-> q.uploaded_bytes,
        file |-> [kind |-> "ok", date |-> d2,
                  api_requests |-> q.api_requests,
                  uploaded_bytes |-> q.uploaded_bytes,
                  quota_source |-> "none"]]

\* increment_upload_bytes(bytes_count)
increment_upload_bytes(f, d, d2, real, init, bytes_count) ==
    LET q == load_daily_quota(f, d, real, init)
        uploaded_bytes == q.uploaded_bytes + bytes_count
    IN [ret |-> uploaded_bytes, loaded |-> q.uploaded_bytes,
        file |-> mutator_record(d2, q.api_requests, uploaded_bytes)]

-----------------------------------------------------------------------------
(* The quota gates.                                                        *)

\* API_QUOTA_LIMIT - SAFETY_RESERVE
effective_limit == API_QUOTA_LIMIT - SAFETY_RESERVE

\* int(API_QUOTA_LIMIT * STOP_THRESHOLD)
stop_threshold_limit == (API_QUOTA_LIMIT * STOP_THRESHOLD) \div 100

\* the gate with > where the code has >=
api_gate_strict(api_requests, requests_needed) ==
    IF api_requests > stop_threshold_limit
       \/ api_requests > effective_limit
       \/ api_requests + requests_needed > stop_threshold_limit
    THEN [ok |-> FALSE, level |-> "stop_threshold"]
    ELSE [ok |-> TRUE, level |-> "none"]

\* the gate that stops at the nominal limit only: no stop line, no reserve
api_gate_no_margin(api_requests, requests_needed) ==
    IF api_requests + requests_needed >= API_QUOTA_LIMIT
    THEN [ok |-> FALSE, level |-> "stop_threshold"]
    ELSE [ok |-> TRUE, level |-> "none"]

\* the gate without its projective check
api_gate_no_projection(api_requests, requests_needed) ==
    IF api_requests >= stop_threshold_limit
    THEN [ok |-> FALSE, level |-> "stop_threshold"]
    ELSE IF api_requests >= effective_limit
    THEN [ok |-> FALSE, level |-> "reserve"]
    ELSE [ok |-> TRUE, level |-> "none"]

\* The decision of check_api_quota on the loaded api_requests: ok is the
\* value returned, level names the branch that logged.
api_gate(api_requests, requests_needed) ==
    LET projected_requests == api_requests + requests_needed
    IN IF api_requests >= stop_threshold_limit
       THEN [ok |-> FALSE, level |-> "stop_threshold"]
       ELSE IF api_requests >= effective_limit
       THEN [ok |-> FALSE, level |-> "reserve"]
       ELSE IF projected_requests >= stop_threshold_limit
       THEN [ok |-> FALSE, level |-> "projected"]
       ELSE IF api_requests * 100 >= CRITICAL_THRESHOLD * API_QUOTA_LIMIT
       THEN [ok |-> TRUE, level |-> "critical"]
       ELSE IF api_requests * 100 >= WARNING_THRESHOLD * API_QUOTA_LIMIT
       THEN [ok |-> TRUE, level |-> "warning"]
       ELSE [ok |-> TRUE, level |-> "none"]

\* a gate that would let every request through
check_api_quota_open(f, d, real, init, requests_needed) ==
    LET q == load_daily_quota(f, d, real, init)
    IN [ok |-> TRUE, level |-> "none", api_requests |-> q.api_requests,
        file |-> q.file]

\* check_api_quota(requests_needed): loads the ledger, then decides.
check_api_quota(f, d, real, init, requests_needed) ==
    LET q == load_daily_quota(f, d, real, init)
        g == api_gate(q.api_requests, requests_needed)
    IN [ok |-> g.ok, level |-> g.level, api_requests |-> q.api_requests,
        file |-> q.file]

\* a byte gate that would stop at the limit itself, not at the stop fraction
upload_gate_at_limit(new_total) ==
    IF new_total >= UPLOAD_QUOTA_LIMIT
    THEN [ok |-> FALSE, level |-> "stop_threshold"]
    ELSE [ok |-> TRUE, level |-> "none"]

\* The decision of check_upload_quota on new_total = uploaded_bytes + file_size.
upload_gate(new_total) ==
    IF new_total * 100 >= STOP_THRESHOLD * UPLOAD_QUOTA_LIMIT
    THEN [ok |-> FALSE, level |-> "stop_threshold"]
    ELSE IF new_total * 100 >= CRITICAL_THRESHOLD * UPLOAD_QUOTA_LIMIT
    THEN [ok |-> TRUE, level |-> "critical"]
    ELSE IF new_total * 100 >= WARNING_THRESHOLD * UPLOAD_QUOTA_LIMIT
    THEN [ok |-> TRUE, level |-> "warning"]
    ELSE [ok |-> TRUE, level |-> "none"]

\* check_upload_quota(file_size)
check_upload_quota(f, d, real, init, file_size) ==
    LET q == load_daily_quota(f, d, real, init)
        g == upload_gate(q.uploaded_bytes + file_size)
    IN [ok |-> g.ok, level |-> g.level, uploaded_bytes |-> q.uploaded_bytes,
        file |-> q.file]

-----------------------------------------------------------------------------
(* Error texts and their classification.  A text is a sequence of          *)
(* characters; RSQUO and LSQUO are the typographic apostrophes U+2019 and  *)
(* U+2018, each one character.                                             *)

RSQUO == "U+2019"

LSQUO == "U+2018"

\* the acute accent U+00B4, which the code does not normalise
ACUTE == "U+00B4"

UpperCase ==
    <<"A","B","C","D","E","F","G","H","I","J","K","L","M",
      "N","O","P","Q","R","S","T","U","V","W","X","Y","Z">>

LowerCase ==
    <<"a","b","c","d","e","f","g","h","i","j","k","l","m",
      "n","o","p","q","r","s","t","u","v","w","x","y","z">>

\* str.lower() on one character
lower_char(c) ==
    IF \E k \in 1..26 : UpperCase[k] = c
    THEN LowerCase[CHOOSE k \in 1..26 : UpperCase[k] = c]
    ELSE c

\* str.upper() on one character (used to build inputs only)
upper_char(c) ==
    IF \E k \in 1..26 : LowerCase[k] = c
    THEN UpperCase[CHOOSE k \in 1..26 : LowerCase[k] = c]
    ELSE c

\* str.lower()
lower(t) == [k \in 1..Len(t) |-> lower_char(t[k])]

upper(t) == [k \in 1..Len(t) |-> upper_char(t[k])]

\* str.replace(old, new) for a single character old
replace(t, old, new) == [k \in 1..Len(t) |-> IF t[k] = old THEN new ELSE t[k]]

\* pattern in text
contains(t, pattern) ==
    \E k \in 0..(Len(t) - Len(pattern)) :
        SubSeq(t, k + 1, k + Len(pattern)) = pattern

\* known_patterns[0]
pattern_create_item ==
    <<"e","r","r","o","r"," ","w","h","i","l","e"," ","t","r","y","i","n",
      "g"," ","t","o"," ","c","r","e","a","t","e"," ","t","h","i","s"," ",
      "m","e","d","i","a"," ","i","t","e","m">>

\* known_patterns[1]
pattern_upload_failed ==
    <<"u","p","l","o","a","d"," ","f","a","i","l","e","d",":"," ","f","a",
      "i","l","e","d",":"," ","t","h","e","r","e"," ","w","a","s"," ","a",
      "n"," ","e","r","r","o","r"," ","w","h","i","l","e"," ","t","r","y",
      "i","n","g"," ","t","o"," ","c","r","e","a","t","e"," ","t","h","i",
      "s"," ","m","e","d","i","a"," ","i","t","e","m">>

\* known_patterns[2]
pattern_preview ==
    <<"i","t"," ","m","a","y"," ","b","e"," ","d","a","m","a","g","e","d",
      " ","o","r"," ","u","s","e"," ","a"," ","f","i","l","e"," ","f","o",
      "r","m","a","t"," ","t","h","a","t"," ","p","r","e","v","i","e","w",
      " ","d","o","e","s","n","'","t"," ","r","e","c","o","g","n","i","z",
      "e">>

known_patterns ==
    {pattern_create_item, pattern_upload_failed, pattern_preview}

\* message.lower() with no replacement of the typographic apostrophes
normalize_lower_only(t) == lower(t)

\* message.lower().replace("’", "'").replace("‘", "'")
msg_normalized(t) == replace(replace(lower(t), RSQUO, "'"), LSQUO, "'")

\* is_nonrecoverable_media_error(message)
is_nonrecoverable_media_error(t) ==
    IF Len(t) = 0 THEN FALSE
    ELSE \E pattern \in known_patterns : contains(msg_normalized(t), pattern)

\* daily_quota_indicators[0]
indicator_per_day ==
    <<"a","l","l"," ","r","e","q","u","e","s","t","s"," ","p","e","r"," ",
      "d","a","y">>

\* daily_quota_indicators[1]
indicator_metric ==
    <<"q","u","o","t","a"," ","e","x","c","e","e","d","e","d"," ","f","o",
      "r"," ","q","u","o","t","a"," ","m","e","t","r","i","c"," ","'","a",
      "l","l"," ","r","e","q","u","e","s","t","s","'">>

\* daily_quota_indicators[2]
indicator_metric_limit ==
    <<"q","u","o","t","a"," ","m","e","t","r","i","c"," ","'","a","l","l",
      " ","r","e","q","u","e","s","t","s","'"," ","a","n","d"," ","l","i",
      "m","i","t"," ","'","a","l","l"," ","r","e","q","u","e","s","t","s",
      " ","p","e","r"," ","d","a","y","'">>

daily_quota_indicators ==
    {indicator_per_day, indicator_metric, indicator_metric_limit}

\* is_daily_quota_exceeded(stderr)
is_daily_quota_exceeded(t) ==
    \E indicator \in daily_quota_indicators : contains(lower(t), indicator)

-----------------------------------------------------------------------------
(* What rclone can answer.  An attempt either exits 0 or exits non-zero    *)
(* with one of the texts of StderrTexts on stderr.                         *)

\* the rate-limit phrases of run_cmd
phrase_quota_exceeded ==
    <<"q","u","o","t","a"," ","e","x","c","e","e","d","e","d">>

phrase_too_many ==
    <<"t","o","o"," ","m","a","n","y"," ","r","e","q","u","e","s","t","s">>

phrase_rate_limit ==
    <<"r","a","t","e"," ","l","i","m","i","t">>

\* "quota exceeded" in stderr_lower or "too many requests" in stderr_lower
\* or "rate limit" in stderr_lower
is_rate_limited(t) ==
    \/ contains(lower(t), phrase_quota_exceeded)
    \/ contains(lower(t), phrase_too_many)
    \/ contains(lower(t), phrase_rate_limit)

\* nothing on stderr
stderr_empty ==
    << >>

\* a generic failure
stderr_network ==
    <<"s","o","m","e"," ","t","r","a","n","s","i","e","n","t"," ","n","e",
      "t","w","o","r","k"," ","e","r","r","o","r">>

\* a rate-limit answer
stderr_rate ==
    <<"E","r","r","o","r"," ","4","2","9",":"," ","T","o","o"," ","M","a",
      "n","y"," ","R","e","q","u","e","s","t","s">>

\* the daily quota answer
stderr_daily ==
    <<"Q","u","o","t","a"," ","e","x","c","e","e","d","e","d"," ","f","o",
      "r"," ","q","u","o","t","a"," ","m","e","t","r","i","c"," ","'","A",
      "l","l"," ","r","e","q","u","e","s","t","s","'"," ","a","n","d"," ",
      "l","i","m","i","t"," ","'","A","l","l"," ","r","e","q","u","e","s",
      "t","s"," ","p","e","r"," ","d","a","y","'">>

\* the permanent rejection of the test
stderr_media ==
    <<"u","p","l","o","a","d"," ","f","a","i","l","e","d",":"," ","F","a",
      "i","l","e","d",":"," ","T","h","e","r","e"," ","w","a","s"," ","a",
      "n"," ","e","r","r","o","r"," ","w","h","i","l","e"," ","t","r","y",
      "i","n","g"," ","t","o"," ","c","r","e","a","t","e"," ","t","h","i",
      "s"," ","m","e","d","i","a"," ","i","t","e","m","."," ","(","3",")">>

\* a text that holds a daily-quota phrase and a permanent phrase
stderr_daily_media ==
    <<"F","a","i","l","e","d",":"," ","T","h","e","r","e"," ","w","a","s",
      " ","a","n"," ","e","r","r","o","r"," ","w","h","i","l","e"," ","t",
      "r","y","i","n","g"," ","t","o"," ","c","r","e","a","t","e"," ","t",
      "h","i","s"," ","m","e","d","i","a"," ","i","t","e","m",":"," ","Q",
      "u","o","t","a"," ","e","x","c","e","e","d","e","d"," ","f","o","r",
      " ","q","u","o","t","a"," ","m","e","t","r","i","c"," ","'","A","l",
      "l"," ","r","e","q","u","e","s","t","s","'"," ","a","n","d"," ","l",
      "i","m","i","t"," ","'","A","l","l"," ","r","e","q","u","e","s","t",
      "s"," ","p","e","r"," ","d","a","y","'">>

\* the fallback texts of the RuntimeErrors run_cmd raises
literal_nonrecoverable ==
    <<"r","c","l","o","n","e"," ","e","r","r","o","r",":"," ","n","o","n",
      "-","r","e","c","o","v","e","r","a","b","l","e"," ","m","e","d","i",
      "a"," ","e","r","r","o","r">>

literal_rclone_error ==
    <<"r","c","l","o","n","e"," ","e","r","r","o","r">>

StderrTexts ==
    <<stderr_empty, stderr_network, stderr_rate, stderr_daily, stderr_media,
      stderr_daily_media>>

\* the texts an exception of run_cmd can carry: a stderr text or one of the
\* two fallbacks
ErrorTexts == StderrTexts \o <<literal_nonrecoverable, literal_rclone_error>>

\* how run_cmd's three tests read each stderr text
StderrClass ==
    [k \in 1..Len(StderrTexts) |->
        [daily |-> is_daily_quota_exceeded(StderrTexts[k]),
         permanent |-> is_nonrecoverable_media_error(StderrTexts[k]),
         rate |-> is_rate_limited(StderrTexts[k]),
         empty |-> Len(StderrTexts[k]) = 0]]

\* a classification that takes every exception text for a permanent rejection
error_all_permanent == [k \in 1..Len(ErrorTexts) |-> TRUE]

\* a classification that takes no exception text for a permanent rejection
error_none_permanent == [k \in 1..Len(ErrorTexts) |-> FALSE]

\* is_nonrecoverable_media_error(str(e)) for each text an exception carries
ErrorIsPermanent ==
    [k \in 1..Len(ErrorTexts) |-> is_nonrecoverable_media_error(ErrorTexts[k])]

-----------------------------------------------------------------------------
(* The sync process: its data.                                             *)

SYNC_INTERVAL_UPLOADS == 15

SYNC_INTERVAL_SECONDS == 300

\* at most MaxRuns processes are started, one after the other
MaxRuns == 2

\* how long one rclone call can take, in seconds
Durations == {0, 300}

\* What rclone lsjson reports on the drive: Path, Size (MiB), and what
\* infer_album and the extension tests make of the path.
RawListing ==
    <<[relpath |-> "2021-03-01_a.jpg", file_size |-> 640,
       album |-> "2021_03_photo", kind |-> "photo"],
      [relpath |-> "2021-03-02_b.jpg", file_size |-> 48000,
       album |-> "2021_03_photo", kind |-> "photo"],
      [relpath |-> "2021-03-02_b.thm", file_size |-> 1,
       album |-> "2021_03_photo", kind |-> "ignored"],
      [relpath |-> "notes.txt", file_size |-> 1,
       album |-> "unsorted_photo", kind |-> "other"]>>

Paths == {RawListing[k].relpath : k \in 1..Len(RawListing)}

Albums == {RawListing[k].album : k \in 1..Len(RawListing)}

\* size == 0 or name.lower().endswith(IGNORED_EXT)
is_listed(f) == ~(f.file_size = 0 \/ f.kind = "ignored")

\* list_drive_files() on a successful rclone call
list_drive_files_ok == SelectSeq(RawListing, is_listed)

\* STATE_FILE: absent, unreadable, or a JSON list of paths
StateFile(kind, items) == [kind |-> kind, items |-> items]

\* FAILED_FILE: absent, unreadable, a mapping path -> {reason, timestamp}
\* ("dict"), or the legacy bare list of paths ("list")
FailedFile(kind, dict, list) == [kind |-> kind, dict |-> dict, list |-> list]

EmptyDict == [p \in {} |-> 0]

\* the entry a legacy list item is migrated to
legacy_entry == [reason |-> "previous failure (legacy list entry)",
                 timestamp |-> None]

\* the entry upload_file stores for a rejected media item
rejected_entry(d) == [reason |-> "rejected as damaged or unsupported",
                      timestamp |-> d]

\* DONE as the module loads it (lines 64-71)
load_DONE(sf) == IF sf.kind = "ok" THEN sf.items ELSE {}

\* FAILED as the module loads it (lines 73-89)
load_FAILED(ff) ==
    IF ff.kind = "dict" THEN ff.dict
    ELSE IF ff.kind = "list" THEN [p \in ff.list |-> legacy_entry]
    ELSE EmptyDict

NoMetrics ==
    [processed_files |-> 0, uploaded_files |-> 0, errors |-> 0,
     quota_exceeded |-> FALSE, quota_reset_time |-> None,
     by_album |-> [a \in Albums |-> 0]]

NoSummary ==
    [written |-> FALSE, quota_exceeded |-> FALSE, quota_reset_time |-> None,
     uploaded_files |-> 0, errors |-> 0, api_requests_used |-> 0,
     uploaded_bytes |-> 0]

NoCur == [relpath |-> "", album |-> "", file_size |-> 0,
          is_first_in_album |-> FALSE]

\* The frame of a run_cmd invocation.  attempt, result and error (index in
\* ErrorTexts of the RuntimeError's text, 0: none) are the function's;
\* last_error is read by the final raise only, where it is the stderr of
\* the last attempt, and is not kept.  executions, first (the ledger when
\* the first attempt started), before (the ledger when the current attempt
\* started), start_day and read (the last value the monitoring API gave to
\* a gate check between attempts, None if it gave none) are history.
Frame(caller, gphotos, retries, cooldown, estimated, f, d) ==
    [caller |-> caller, is_gphotos_api |-> gphotos, retries |-> retries,
     cooldown |-> cooldown, estimated_requests |-> estimated,
     attempt |-> 1, result |-> "none", error |-> 0,
     executions |-> 0, first |-> f, before |-> f, start_day |-> d,
     read |-> None]

NoFrame == Frame("none", FALSE, 0, 0, 0, AbsentFile, 0)

\* history of the runs: what was persisted when the run started, the files
\* passed to upload_file in the run, the files whose upload_file ended in
\* an error that is not a permanent rejection, in this run (errored) and in
\* the run before (prev_errored); history of the ledger (SpecHistory):
\* whether the process has taken the manual override (applied), the last
\* readable ledger file before the last operation (last)
NoHist == [start_done |-> {}, start_failed |-> {}, passed |-> {},
           errored |-> {}, prev_errored |-> {},
           applied |-> FALSE, last |-> AbsentFile]

\* no process runs and nothing is persisted
NoProgram ==
    /\ pc = "idle"
    /\ run = 0
    /\ stateFile = StateFile("absent", {})
    /\ failedFile = FailedFile("absent", EmptyDict, {})
    /\ DONE = {}
    /\ FAILED = EmptyDict
    /\ KNOWN_ALBUMS = {}
    /\ sync_age = None
    /\ LAST_SYNC_UPLOADS = 0
    /\ METRICS = NoMetrics
    /\ summary = NoSummary
    /\ files = << >>
    /\ i = 0
    /\ processed_count = 0
    /\ cur = NoCur
    /\ rc = NoFrame
    /\ hist = NoHist

(* Inputs of the classifiers: prefix + core + suffix, in one of three     *)
(* letter cases.                                                           *)

\* no phrase
core_none ==
    << >>

\* the Google Photos phrase
core_create_item ==
    <<"e","r","r","o","r"," ","w","h","i","l","e"," ","t","r","y","i","n",
      "g"," ","t","o"," ","c","r","e","a","t","e"," ","t","h","i","s"," ",
      "m","e","d","i","a"," ","i","t","e","m">>

\* the Preview phrase as the test writes it, with U+2019
core_preview_rsquo ==
    <<"I","t"," ","m","a","y"," ","b","e"," ","d","a","m","a","g","e","d",
      " ","o","r"," ","u","s","e"," ","a"," ","f","i","l","e"," ","f","o",
      "r","m","a","t"," ","t","h","a","t"," ","P","r","e","v","i","e","w",
      " ","d","o","e","s","n",RSQUO,"t"," ","r","e","c","o","g","n","i","z",
      "e">>

\* the Preview phrase with a plain apostrophe
core_preview_plain ==
    <<"I","t"," ","m","a","y"," ","b","e"," ","d","a","m","a","g","e","d",
      " ","o","r"," ","u","s","e"," ","a"," ","f","i","l","e"," ","f","o",
      "r","m","a","t"," ","t","h","a","t"," ","P","r","e","v","i","e","w",
      " ","d","o","e","s","n","'","t"," ","r","e","c","o","g","n","i","z",
      "e">>

\* the Preview phrase with U+2018
core_preview_lsquo ==
    <<"I","t"," ","m","a","y"," ","b","e"," ","d","a","m","a","g","e","d",
      " ","o","r"," ","u","s","e"," ","a"," ","f","i","l","e"," ","f","o",
      "r","m","a","t"," ","t","h","a","t"," ","P","r","e","v","i","e","w",
      " ","d","o","e","s","n",LSQUO,"t"," ","r","e","c","o","g","n","i","z",
      "e">>

\* not the phrase: an acute accent for the apostrophe
core_preview_acute ==
    <<"I","t"," ","m","a","y"," ","b","e"," ","d","a","m","a","g","e","d",
      " ","o","r"," ","u","s","e"," ","a"," ","f","i","l","e"," ","f","o",
      "r","m","a","t"," ","t","h","a","t"," ","P","r","e","v","i","e","w",
      " ","d","o","e","s","n",ACUTE,"t"," ","r","e","c","o","g","n","i","z",
      "e">>

\* not the phrase: two spaces before item
core_create_gap ==
    <<"e","r","r","o","r"," ","w","h","i","l","e"," ","t","r","y","i","n",
      "g"," ","t","o"," ","c","r","e","a","t","e"," ","t","h","i","s"," ",
      "m","e","d","i","a"," "," ","i","t","e","m">>

\* not the phrase: cut short
core_create_cut ==
    <<"e","r","r","o","r"," ","w","h","i","l","e"," ","t","r","y","i","n",
      "g"," ","t","o"," ","c","r","e","a","t","e"," ","t","h","i","s"," ",
      "m","e","d","i","a">>

\* no prefix
prefix_none ==
    << >>

\* the start of the rclone message of the test
prefix_upload ==
    <<"u","p","l","o","a","d"," ","f","a","i","l","e","d",":"," ","F","a",
      "i","l","e","d",":"," ","T","h","e","r","e"," ","w","a","s"," ","a",
      "n"," ">>

\* an unrelated error
prefix_network ==
    <<"s","o","m","e"," ","t","r","a","n","s","i","e","n","t"," ","n","e",
      "t","w","o","r","k"," ","e","r","r","o","r"," ">>

\* a rate-limit text
prefix_rate ==
    <<"Q","u","o","t","a"," ","e","x","c","e","e","d","e","d",":"," ","T",
      "o","o"," ","M","a","n","y"," ","R","e","q","u","e","s","t","s"," ">>

\* no suffix
suffix_none ==
    << >>

\* the end of the rclone message of the test
suffix_code ==
    <<"."," ","(","3",")">>

\* an unrelated error
suffix_network ==
    <<":"," ","s","o","m","e"," ","t","r","a","n","s","i","e","n","t"," ",
      "n","e","t","w","o","r","k"," ","e","r","r","o","r">>

Cores ==
    <<core_none, core_create_item, core_preview_rsquo, core_preview_plain,
      core_preview_lsquo, core_preview_acute, core_create_gap,
      core_create_cut>>

\* the cores that are one of the permanent-rejection phrases, up to letter
\* case and the kind of apostrophe
PhraseCores == {2, 3, 4, 5}

Prefixes == <<prefix_none, prefix_upload, prefix_network, prefix_rate>>

Suffixes == <<suffix_none, suffix_code, suffix_network>>

Cases == {"as_written", "upper", "lower"}

NoMessage == [prefix |-> 1, core |-> 1, suffix |-> 1, case |-> "none"]

Messages ==
    [prefix : 1..Len(Prefixes), core : 1..Len(Cores),
     suffix : 1..Len(Suffixes), case : Cases]

\* the characters of an input
TextOf(m) ==
    LET t == Prefixes[m.prefix] \o Cores[m.core] \o Suffixes[m.suffix]
    IN IF m.case = "upper" THEN upper(t)
       ELSE IF m.case = "lower" THEN lower(t)
       ELSE t

InitText ==
    /\ message \in Messages
    /\ obs = NoObs
    /\ day = 0
    /\ file = AbsentFile
    /\ INITIAL_API_REQUESTS = None
    /\ steps = 0
    /\ NoProgram

IsNonrecoverableMediaError ==
    /\ obs.op = "none"
    /\ obs' = [op |-> "is_nonrecoverable_media_error",
               ret |-> is_nonrecoverable_media_error(TextOf(message))]
    /\ UNCHANGED <<message, ledgerVars, programVars>>

IsDailyQuotaExceeded ==
    /\ obs.op = "none"
    /\ obs' = [op |-> "is_daily_quota_exceeded",
               ret |-> is_daily_quota_exceeded(TextOf(message))]
    /\ UNCHANGED <<message, ledgerVars, programVars>>

NextText ==
    \/ IsNonrecoverableMediaError
    \/ IsDailyQuotaExceeded

SpecText == InitText /\ [][NextText]_vars

-----------------------------------------------------------------------------
(* The ledger under arbitrary calls of its operations: SpecLedger.         *)

\* the dates a mutator can write under: midnight may pass between its
\* load_daily_quota and its get_current_pst_date()
WriteDays(d) == {d2 \in Days : d2 = d \/ d2 = d + 1}

InitFiles ==
    {AbsentFile, CorruptFile} \cup
    {QuotaData(d, a, b, s) : d \in Days, a \in RequestSeeds,
                             b \in ByteSeeds, s \in {"none", "api"}}

InitLedger ==
    /\ day = 0
    /\ file \in InitFiles
    /\ INITIAL_API_REQUESTS \in InitialSet
    /\ steps = 0
    /\ obs = NoObs
    /\ message = NoMessage
    /\ NoProgram

LoadDailyQuota ==
    \E real \in RealUsage :
        LET q == load_daily_quota(file, day, real, INITIAL_API_REQUESTS)
        IN /\ file' = q.file
           /\ obs' = [op |-> "load_daily_quota", pre |-> file, real |-> real,
                      api_requests |-> q.api_requests,
                      uploaded_bytes |-> q.uploaded_bytes]
           /\ UNCHANGED <<day, INITIAL_API_REQUESTS, steps, nonLedgerVars>>

SyncQuotaFromApi ==
    \E real \in RealUsage :
        LET r == sync_quota_from_api(file, day, real)
        IN /\ file' = r.file
           /\ obs' = [op |-> "sync_quota_from_api", real |-> real,
                      pre_bytes |-> file.uploaded_bytes, ok |-> r.ok]
           /\ UNCHANGED <<day, INITIAL_API_REQUESTS, steps, nonLedgerVars>>

IncrementApiRequest ==
    /\ steps < MaxSteps
    /\ \E real \in RealUsage, d2 \in WriteDays(day) :
        LET r == increment_api_request(file, day, d2, real, INITIAL_API_REQUESTS)
        IN /\ file' = r.file
           /\ day' = d2
           /\ obs' = [op |-> "increment_api_request", loaded |-> r.loaded,
                      ret |-> r.ret]
    /\ steps' = steps + 1
    /\ UNCHANGED <<INITIAL_API_REQUESTS, nonLedgerVars>>

DecrementApiRequests ==
    /\ steps < MaxSteps
    /\ \E real \in RealUsage, d2 \in WriteDays(day), count \in CountSet :
        LET r == decrement_api_requests(file, day, d2, real,
                                        INITIAL_API_REQUESTS, count)
        IN /\ file' = r.file
           /\ day' = d2
           /\ obs' = [op |-> "decrement_api_requests", loaded |-> r.loaded,
                      count |-> count, ret |-> r.ret]
    /\ steps' = steps + 1
    /\ UNCHANGED <<INITIAL_API_REQUESTS, nonLedgerVars>>

IncrementUploadBytes ==
    /\ steps < MaxSteps
    /\ \E real \in RealUsage, d2 \in WriteDays(day), n \in SizeSet :
        LET r == increment_upload_bytes(file, day, d2, real,
                                        INITIAL_API_REQUESTS, n)
        IN /\ file' = r.file
           /\ day' = d2
           /\ obs' = [op |-> "increment_upload_bytes", loaded |-> r.loaded,
                      bytes_count |-> n, ret |-> r.ret]
    /\ steps' = steps + 1
    /\ UNCHANGED <<INITIAL_API_REQUESTS, nonLedgerVars>>

CheckApiQuota ==
    \E real \in RealUsage, requests_needed \in NeededSet :
        LET r == check_api_quota(file, day, real, INITIAL_API_REQUESTS,
                                 requests_needed)
        IN /\ file' = r.file
           /\ obs' = [op |-> "check_api_quota", api_requests |-> r.api_requests,
                      requests_needed |-> requests_needed,
                      ok |-> r.ok, level |-> r.level]
           /\ UNCHANGED <<day, INITIAL_API_REQUESTS, steps, nonLedgerVars>>

CheckUploadQuota ==
    \E real \in RealUsage, file_size \in SizeSet :
        LET r == check_upload_quota(file, day, real, INITIAL_API_REQUESTS,
                                    file_size)
        IN /\ file' = r.file
           /\ obs' = [op |-> "check_upload_quota",
                      uploaded_bytes |-> r.uploaded_bytes,
                      file_size |-> file_size, ok |-> r.ok, level |-> r.level]
           /\ UNCHANGED <<day, INITIAL_API_REQUESTS, steps, nonLedgerVars>>

\* midnight in the reference timezone
NextDay ==
    /\ day < MaxDay
    /\ day' = day + 1
    /\ obs' = NoObs
    /\ UNCHANGED <<file, INITIAL_API_REQUESTS, steps, nonLedgerVars>>

NextLedger ==
    \/ LoadDailyQuota
    \/ SyncQuotaFromApi
    \/ IncrementApiRequest
    \/ DecrementApiRequests
    \/ IncrementUploadBytes
    \/ CheckApiQuota
    \/ CheckUploadQuota
    \/ NextDay

SpecLedger == InitLedger /\ [][NextLedger]_vars

-----------------------------------------------------------------------------
(* The sync process: module load, main, list_drive_files, upload_file and  *)
(* run_cmd.  SpecMain runs the process up to MaxRuns times, one run after  *)
(* the other, on the files the previous run left.                          *)

\* a run can last over at most MaxMainDay midnights
MaxMainDay == 1

\* the ledger files a first run can find
MainInitFiles == {AbsentFile, QuotaData(0, 9400, 640, "none")}

\* the dates upload_file's increment_upload_bytes can write under
MainWriteDays(d) == {d2 \in WriteDays(d) : d2 <= MaxMainDay}

\* the INITIAL_API_REQUESTS settings of the runs
MainInitialSet == {None, 9600}

\* what a first run can find in STATE_FILE and FAILED_FILE: nothing,
\* unreadable files, a file that is done, a file that failed (legacy
\* list), a file that is in both
InitPersisted ==
    {<<StateFile("absent", {}), FailedFile("absent", EmptyDict, {})>>,
     <<StateFile("corrupt", {}), FailedFile("corrupt", EmptyDict, {})>>,
     <<StateFile("ok", {"2021-03-01_a.jpg"}),
       FailedFile("absent", EmptyDict, {})>>,
     <<StateFile("absent", {}),
       FailedFile("list", EmptyDict, {"2021-03-02_b.jpg"})>>,
     <<StateFile("ok", {"2021-03-02_b.jpg"}),
       FailedFile("dict",
                  [p \in {"2021-03-02_b.jpg"} |-> rejected_entry(0)], {})>>}

InitMain ==
    /\ day = 0
    /\ file \in MainInitFiles
    /\ INITIAL_API_REQUESTS \in MainInitialSet
    /\ steps = 0
    /\ obs = NoObs
    /\ message = NoMessage
    /\ pc = "idle"
    /\ run = 0
    /\ \E pr \in InitPersisted : stateFile = pr[1] /\ failedFile = pr[2]
    /\ DONE = {}
    /\ FAILED = EmptyDict
    /\ KNOWN_ALBUMS = {}
    /\ sync_age = None
    /\ LAST_SYNC_UPLOADS = 0
    /\ METRICS = NoMetrics
    /\ summary = NoSummary
    /\ files = << >>
    /\ i = 0
    /\ processed_count = 0
    /\ cur = NoCur
    /\ rc = NoFrame
    /\ hist = NoHist

\* the clock moving on by d seconds, as the sync conditions see it
advance(age, d) ==
    IF age = None THEN None
    ELSE IF age + d >= SYNC_INTERVAL_SECONDS THEN SYNC_INTERVAL_SECONDS
    ELSE age + d

\* the paths persisted in FAILED_FILE
failed_paths(ff) ==
    IF ff.kind = "dict" THEN DOMAIN ff.dict
    ELSE IF ff.kind = "list" THEN ff.list
    ELSE {}

\* Module load (lines 62-116) and the start of main() (lines 949-996), up
\* to the call of run_cmd in list_drive_files.
StartRun ==
    /\ pc = "idle"
    /\ run < MaxRuns
    /\ run' = run + 1
    /\ DONE' = load_DONE(stateFile)
    /\ FAILED' = load_FAILED(failedFile)
    /\ KNOWN_ALBUMS' = {}
    /\ sync_age' = None
    /\ LAST_SYNC_UPLOADS' = 0
    /\ METRICS' = NoMetrics
    /\ summary' = NoSummary
    /\ files' = << >>
    /\ i' = 0
    /\ processed_count' = 0
    /\ cur' = NoCur
    /\ hist' = [start_done |-> stateFile.items,
                start_failed |-> failed_paths(failedFile),
                passed |-> {}, errored |-> {},
                prev_errored |-> hist.errored,
                applied |-> FALSE, last |-> AbsentFile]
    /\ \E real \in RealUsage :
        LET q == load_daily_quota(file, day, real, INITIAL_API_REQUESTS)
        IN /\ file' = q.file
           /\ rc' = Frame("list", FALSE, 3, 5, 1, q.file, day)
    /\ pc' = "attempt"
    /\ obs' = NoObs
    /\ UNCHANGED <<day, INITIAL_API_REQUESTS, steps, message,
                   stateFile, failedFile>>

\* The end of the process: its memory is gone.
ProcessEnds ==
    /\ pc' = "idle"
    /\ DONE' = {}
    /\ FAILED' = EmptyDict
    /\ KNOWN_ALBUMS' = {}
    /\ sync_age' = None
    /\ LAST_SYNC_UPLOADS' = 0
    /\ files' = << >>
    /\ i' = 0
    /\ processed_count' = 0
    /\ cur' = NoCur
    /\ rc' = NoFrame

\* save_summary() with the ledger f and the metrics m: the ledger it
\* leaves and the summary it writes.
save_summary(f, d, real, init, m) ==
    LET q == load_daily_quota(f, d, real, init)
    IN [file |-> q.file,
        summary |-> [written |-> TRUE,
                     quota_exceeded |-> m.quota_exceeded,
                     quota_reset_time |-> m.quota_reset_time,
                     uploaded_files |-> m.uploaded_files,
                     errors |-> m.errors,
                     api_requests_used |-> q.api_requests,
                     uploaded_bytes |-> q.uploaded_bytes]]

\* a handler that would leave METRICS as it found it
quota_metrics_unset(m, d) == m

\* METRICS as main's QuotaExceededError handler leaves it (lines 1026-1027)
quota_metrics(m, d) ==
    [m EXCEPT !.quota_exceeded = TRUE, !.quota_reset_time = d + 1]

\* main's handler of QuotaExceededError (lines 1024-1038) and the top
\* level's (lines 1064-1067), entered with the ledger f.
QuotaExit(f) ==
    /\ METRICS' = quota_metrics(METRICS, day)
    /\ stateFile' = StateFile("ok", DONE)
    /\ \E real \in RealUsage :
        LET r == save_summary(f, day, real, INITIAL_API_REQUESTS,
                              quota_metrics(METRICS, day))
        IN /\ file' = r.file
           /\ summary' = r.summary
    /\ ProcessEnds
    /\ UNCHANGED <<day, INITIAL_API_REQUESTS, steps, message, run,
                   failedFile>>

\* should_sync of run_cmd's entry (lines 657-665)
should_sync(age, uploads) ==
    \/ age = None
    \/ age >= SYNC_INTERVAL_SECONDS
    \/ uploads + 1 >= SYNC_INTERVAL_UPLOADS

\* the sync condition after a successful operation (lines 689-691)
sync_due(age, uploads) ==
    \/ age = None
    \/ age >= SYNC_INTERVAL_SECONDS
    \/ uploads >= SYNC_INTERVAL_UPLOADS

\* no call of sync_quota_from_api
NoSync(f) == [ok |-> FALSE, file |-> f]

\* the answers of the monitoring API to a step that asks (or does not)
Answers(asks) == IF asks THEN RealUsage ELSE {None}

\* what run_cmd leaves alone
RunCmdFrame ==
    UNCHANGED <<day, INITIAL_API_REQUESTS, steps, message, run,
                stateFile, failedFile, DONE, FAILED, KNOWN_ALBUMS,
                METRICS, summary, files, i, processed_count, cur, hist>>

\* What a step of run_cmd did, kept for the invocations of SpecRunCmd
\* (caller "call") only: op the step, stderr the index in StderrTexts of
\* what the attempt wrote (0: no attempt, or exit 0), wait the seconds of
\* time.sleep, attempt the number of the attempt, pre the ledger and
\* due whether the sync condition held when the step began.
observed(op, k, wait, due) ==
    IF rc.caller = "call"
    THEN [op |-> op, stderr |-> k, wait |-> wait, attempt |-> rc.attempt,
          pre |-> file, due |-> due]
    ELSE obs

\* run_cmd, is_gphotos_api: the sync and the gate before the first attempt
\* (lines 652-675).
RunCmdPreflight ==
    /\ pc = "preflight"
    /\ \E real1 \in Answers(should_sync(sync_age, LAST_SYNC_UPLOADS)),
          real2 \in RealUsage :
        LET s == IF should_sync(sync_age, LAST_SYNC_UPLOADS)
                 THEN sync_quota_from_api(file, day, real1)
                 ELSE NoSync(file)
            g == check_api_quota(s.file, day, real2, INITIAL_API_REQUESTS, 0)
        IN /\ file' = g.file
           /\ sync_age' = IF s.ok THEN 0 ELSE sync_age
           /\ LAST_SYNC_UPLOADS' = IF s.ok THEN 0 ELSE LAST_SYNC_UPLOADS
           /\ obs' = observed("preflight", 0, 0,
                              should_sync(sync_age, LAST_SYNC_UPLOADS))
           /\ IF g.ok
              THEN /\ pc' = "attempt"
                   /\ rc' = [rc EXCEPT !.first = g.file, !.before = g.file,
                                       !.start_day = day]
              ELSE /\ pc' = "returned"
                   /\ rc' = [rc EXCEPT !.result = "quota"]
    /\ RunCmdFrame

\* a success branch that would count the estimated cost in the ledger
after_success_counting(f, d, real, due, estimated_requests) ==
    LET s == IF due THEN sync_quota_from_api(f, d, real)
             ELSE [ok |-> FALSE, file |-> f]
    IN IF s.file.kind = "ok"
       THEN [s EXCEPT !.file.api_requests = @ + estimated_requests]
       ELSE s

\* the ledger after a successful attempt of a quota-relevant operation:
\* nothing is counted, a due sync may overwrite it (lines 682-694)
after_success(f, d, real, due, estimated_requests) ==
    IF due THEN sync_quota_from_api(f, d, real) ELSE NoSync(f)

\* An attempt that exits 0 (lines 679-696).
AttemptSuccess ==
    /\ pc = "attempt"
    /\ \E dur \in Durations :
        LET age1 == advance(sync_age, dur)
            uploads1 == LAST_SYNC_UPLOADS + 1
            due == rc.is_gphotos_api /\ sync_due(age1, uploads1)
        IN \E real \in Answers(due) :
            LET s == after_success(file, day, real, due, rc.estimated_requests)
            IN /\ file' = s.file
               /\ sync_age' = IF s.ok THEN 0 ELSE age1
               /\ LAST_SYNC_UPLOADS' =
                    IF ~rc.is_gphotos_api THEN LAST_SYNC_UPLOADS
                    ELSE IF s.ok THEN 0 ELSE uploads1
               /\ obs' = observed("success", 0, 0, due)
    /\ rc' = [rc EXCEPT !.result = "success", !.executions = @ + 1,
                        !.before = file]
    /\ pc' = "returned"
    /\ RunCmdFrame

\* An attempt whose stderr reads as the daily quota (lines 701-719).
AttemptDailyQuota ==
    /\ pc = "attempt"
    /\ \E k \in 1..Len(StderrTexts), dur \in Durations :
        /\ StderrClass[k].daily
        /\ \E real1 \in Answers(rc.is_gphotos_api), real2 \in RealUsage :
            LET s == IF rc.is_gphotos_api
                     THEN sync_quota_from_api(file, day, real1)
                     ELSE NoSync(file)
                q == load_daily_quota(s.file, day, real2, INITIAL_API_REQUESTS)
            IN file' = q.file
        /\ sync_age' = advance(sync_age, dur)
        /\ rc' = [rc EXCEPT !.result = "quota", !.executions = @ + 1]
        /\ obs' = observed("failed", k, 0, FALSE)
    /\ pc' = "returned"
    /\ RunCmdFrame
    /\ UNCHANGED LAST_SYNC_UPLOADS

\* raise RuntimeError(stderr or fallback): the text the exception carries,
\* as its index in ErrorTexts
error_text(k, fallback) == IF StderrClass[k].empty THEN fallback ELSE k

\* An attempt whose stderr reads as a permanent media rejection
\* (lines 723-727).
AttemptPermanent ==
    /\ pc = "attempt"
    /\ \E k \in 1..Len(StderrTexts), dur \in Durations :
        /\ ~StderrClass[k].daily
        /\ StderrClass[k].permanent
        /\ sync_age' = advance(sync_age, dur)
        /\ rc' = [rc EXCEPT !.result = "error", !.error = error_text(k, Len(StderrTexts) + 1),
                            !.executions = @ + 1]
        /\ obs' = observed("failed", k, 0, FALSE)
    /\ pc' = "returned"
    /\ RunCmdFrame
    /\ UNCHANGED <<file, LAST_SYNC_UPLOADS>>

\* the gate that would count the failed request before deciding
post_failure_gate_counting(f, d, real, init, gphotos) ==
    IF gphotos
    THEN LET g == check_api_quota(f, d, real, init, 0)
         IN [g EXCEPT !.file = [g.file EXCEPT !.api_requests = @ + 1]]
    ELSE [ok |-> TRUE, level |-> "none", api_requests |-> 0, file |-> f]

\* a gate that would never stop an invocation between its attempts
post_failure_gate_open(f, d, real, init, gphotos) ==
    IF gphotos
    THEN [check_api_quota(f, d, real, init, 0) EXCEPT !.ok = TRUE]
    ELSE [ok |-> TRUE, level |-> "none", api_requests |-> 0, file |-> f]

\* the gate check after a failed attempt (lines 729-733)
post_failure_gate(f, d, real, init, gphotos) ==
    IF gphotos THEN check_api_quota(f, d, real, init, 0)
    ELSE [ok |-> TRUE, level |-> "none", api_requests |-> 0, file |-> f]

\* a pause that would not tell a rate limit from another failure
wait_after_flat(cooldown, attempt, rate) == cooldown * attempt

\* the pause after the failed attempt number attempt (lines 736-750)
wait_after(cooldown, attempt, rate) ==
    IF rate THEN cooldown * attempt * 2 ELSE cooldown * attempt

\* a loop that would retry on the daily quota
retry_daily_quota(k) == ~StderrClass[k].permanent

\* a loop that would retry on a permanent rejection
retry_permanent(k) == ~StderrClass[k].daily

\* a stderr text that is neither the daily quota nor a permanent rejection
IsRetryable(k) == ~StderrClass[k].daily /\ ~StderrClass[k].permanent

\* A failed attempt after which the gate stops the invocation
\* (lines 729-733).
AttemptGateStop ==
    /\ pc = "attempt"
    /\ rc.is_gphotos_api
    /\ \E k \in 1..Len(StderrTexts), dur \in Durations, real \in RealUsage :
        LET g == post_failure_gate(file, day, real, INITIAL_API_REQUESTS, TRUE)
        IN /\ IsRetryable(k)
           /\ ~g.ok
           /\ file' = g.file
           /\ sync_age' = advance(sync_age, dur)
           /\ rc' = [rc EXCEPT !.result = "quota",    !.executions = @ + 1,
                               !.read = IF real # None THEN real ELSE @]
           /\ obs' = observed("failed", k, 0, FALSE)
    /\ pc' = "returned"
    /\ RunCmdFrame
    /\ UNCHANGED LAST_SYNC_UPLOADS

\* A failed attempt that is retried: the pause, then the next attempt
\* (lines 735-750).
AttemptRetry ==
    /\ pc = "attempt"
    /\ rc.attempt < rc.retries
    /\ \E k \in 1..Len(StderrTexts), dur \in Durations,
          real \in Answers(rc.is_gphotos_api) :
        LET g == post_failure_gate(file, day, real, INITIAL_API_REQUESTS,
                                   rc.is_gphotos_api)
            wait == wait_after(rc.cooldown, rc.attempt, StderrClass[k].rate)
        IN /\ IsRetryable(k)
           /\ g.ok
           /\ file' = g.file
           /\ sync_age' = advance(advance(sync_age, dur), wait)
           /\ rc' = [rc EXCEPT !.attempt = @ + 1,    !.executions = @ + 1, !.before = g.file,
                               !.read = IF real # None THEN real ELSE @]
           /\ obs' = observed("failed", k, wait, FALSE)
    /\ pc' = "attempt"
    /\ RunCmdFrame
    /\ UNCHANGED LAST_SYNC_UPLOADS

\* The last attempt failing the same way: the pause, then
\* raise RuntimeError(last_error or "rclone error") (lines 735-753).
AttemptExhausted ==
    /\ pc = "attempt"
    /\ rc.attempt = rc.retries
    /\ \E k \in 1..Len(StderrTexts), dur \in Durations,
          real \in Answers(rc.is_gphotos_api) :
        LET g == post_failure_gate(file, day, real, INITIAL_API_REQUESTS,
                                   rc.is_gphotos_api)
            wait == wait_after(rc.cooldown, rc.attempt, StderrClass[k].rate)
        IN /\ IsRetryable(k)
           /\ g.ok
           /\ file' = g.file
           /\ sync_age' = advance(advance(sync_age, dur), wait)
           /\ rc' = [rc EXCEPT !.result = "error",    !.error = error_text(k, Len(StderrTexts) + 2),
                               !.executions = @ + 1,
                               !.read = IF real # None THEN real ELSE @]
           /\ obs' = observed("failed", k, wait, FALSE)
    /\ pc' = "returned"
    /\ RunCmdFrame
    /\ UNCHANGED LAST_SYNC_UPLOADS

\* list_drive_files() after its run_cmd (lines 759-773): any exception,
\* QuotaExceededError included, gives the empty list.
ListDriveFilesReturn ==
    /\ pc = "returned"
    /\ rc.caller = "list"
    /\ files' = IF rc.result = "success" THEN list_drive_files_ok ELSE << >>
    /\ METRICS' = [METRICS EXCEPT !.processed_files = Len(files')]
    /\ i' = 1
    /\ rc' = NoFrame
    /\ pc' = "loop"
    /\ UNCHANGED <<ledgerVars, obs, message, run, stateFile, failedFile,
                   DONE, FAILED, KNOWN_ALBUMS, sync_age, LAST_SYNC_UPLOADS,
                   summary, processed_count, cur, hist>>

\* main's loop going on to the next file without a call of upload_file
SkipFrame ==
    /\ i' = i + 1
    /\ UNCHANGED <<ledgerVars, obs, message, pc, run, stateFile, failedFile,
                   DONE, FAILED, KNOWN_ALBUMS, sync_age, LAST_SYNC_UPLOADS,
                   METRICS, summary, files, processed_count, cur, rc, hist>>

\* main's loop without its test of FAILED
skip_reason_no_failed_test(done, failed, f) ==
    IF f.relpath \in done THEN "done"
    ELSE IF f.kind \notin {"photo", "video"} THEN "extension"
    ELSE "none"

\* the tests of main's loop on a listed file f (lines 1007-1018): which of
\* them, if any, skips the file
skip_reason(done, failed, f) ==
    IF f.relpath \in done THEN "done"
    ELSE IF f.relpath \in DOMAIN failed THEN "failed"
    ELSE IF f.kind \notin {"photo", "video"} THEN "extension"
    ELSE "none"

\* if relpath in DONE: continue
SkipDone ==
    /\ pc = "loop" /\ i <= Len(files)
    /\ skip_reason(DONE, FAILED, files[i]) = "done"
    /\ SkipFrame

\* if relpath in FAILED: continue
SkipFailed ==
    /\ pc = "loop" /\ i <= Len(files)
    /\ skip_reason(DONE, FAILED, files[i]) = "failed"
    /\ SkipFrame

\* if not (is_photo or is_video): continue
SkipOther ==
    /\ pc = "loop" /\ i <= Len(files)
    /\ skip_reason(DONE, FAILED, files[i]) = "extension"
    /\ SkipFrame

\* the file of position i goes to upload_file
IsUploaded ==
    /\ pc = "loop" /\ i <= Len(files)
    /\ skip_reason(DONE, FAILED, files[i]) = "none"

\* ensure_album(album_name): whether this is the first use, and the albums
\* known afterwards
ensure_album(known, album_name) ==
    [first |-> album_name \notin known, known |-> known \cup {album_name}]

\* upload_file refused by the byte gate (lines 806-809), and main's handler.
UploadFileByteStop ==
    /\ IsUploaded
    /\ hist' = [hist EXCEPT !.passed = @ \cup {files[i].relpath}]
    /\ \E real \in RealUsage :
        LET g == check_upload_quota(file, day, real, INITIAL_API_REQUESTS,
                                    files[i].file_size)
        IN /\ ~g.ok
           /\ obs' = [op |-> "refused", relpath |-> files[i].relpath,
                      file_size |-> files[i].file_size,
                      uploaded_bytes |-> g.uploaded_bytes]
           /\ QuotaExit(g.file)

\* upload_file up to its call of run_cmd (lines 806-844).
UploadFileStart ==
    /\ IsUploaded
    /\ hist' = [hist EXCEPT !.passed = @ \cup {files[i].relpath}]
    /\ processed_count' = processed_count + 1
    /\ \E real \in RealUsage :
        LET g == check_upload_quota(file, day, real, INITIAL_API_REQUESTS,
                                    files[i].file_size)
        IN /\ g.ok
           /\ file' = g.file
           /\ rc' = Frame("upload", TRUE, 5, 30, 1, g.file, day)
    /\ LET e == ensure_album(KNOWN_ALBUMS, files[i].album)
       IN /\ cur' = [relpath |-> files[i].relpath, album |-> files[i].album,
                     file_size |-> files[i].file_size,
                     is_first_in_album |-> e.first]
          /\ KNOWN_ALBUMS' = e.known
    /\ pc' = "preflight"
    /\ UNCHANGED <<day, INITIAL_API_REQUESTS, steps, obs, message, run,
                   stateFile, failedFile, DONE, FAILED, sync_age,
                   LAST_SYNC_UPLOADS, METRICS, summary, files, i>>

\* upload_file after run_cmd returned (lines 845-852).
UploadFileSuccess ==
    /\ pc = "returned"
    /\ rc.caller = "upload"
    /\ rc.result = "success"
    /\ \E real \in RealUsage, d2 \in MainWriteDays(day) :
        LET r == increment_upload_bytes(file, day, d2, real,
                                        INITIAL_API_REQUESTS, cur.file_size)
        IN /\ file' = r.file
           /\ day' = d2
    /\ DONE' = DONE \cup {cur.relpath}
    /\ stateFile' = StateFile("ok", DONE')
    /\ METRICS' = [METRICS EXCEPT !.uploaded_files = @ + 1,
                                  !.by_album[cur.album] = @ + 1]
    /\ rc' = NoFrame
    /\ pc' = "progress"
    /\ UNCHANGED <<INITIAL_API_REQUESTS, steps, obs, message, run, failedFile,
                   FAILED, KNOWN_ALBUMS, sync_age, LAST_SYNC_UPLOADS, summary,
                   files, i, processed_count, cur, hist>>

\* upload_file re-raising QuotaExceededError (lines 853-855), and main's
\* handler.
UploadFileQuota ==
    /\ pc = "returned"
    /\ rc.caller = "upload"
    /\ rc.result = "quota"
    /\ QuotaExit(file)
    /\ UNCHANGED <<hist, obs>>

\* upload_file on a RuntimeError whose text is a permanent media rejection
\* (lines 856-875).
UploadFilePermanent ==
    /\ pc = "returned"
    /\ rc.caller = "upload"
    /\ rc.result = "error"
    /\ ErrorIsPermanent[rc.error]
    /\ METRICS' = [METRICS EXCEPT !.errors = @ + 1]
    /\ FAILED' = [p \in DOMAIN FAILED \cup {cur.relpath} |->
                    IF p = cur.relpath THEN rejected_entry(day) ELSE FAILED[p]]
    /\ failedFile' = FailedFile("dict", FAILED', {})
    /\ DONE' = DONE \cup {cur.relpath}
    /\ stateFile' = StateFile("ok", DONE')
    /\ rc' = NoFrame
    /\ pc' = "progress"
    /\ UNCHANGED <<ledgerVars, obs, message, run, KNOWN_ALBUMS, sync_age,
                   LAST_SYNC_UPLOADS, summary, files, i, processed_count,
                   cur, hist>>

\* upload_file on any other RuntimeError (lines 856-860).
UploadFileRetryable ==
    /\ pc = "returned"
    /\ rc.caller = "upload"
    /\ rc.result = "error"
    /\ ~ErrorIsPermanent[rc.error]
    /\ METRICS' = [METRICS EXCEPT !.errors = @ + 1]
    /\ hist' = [hist EXCEPT !.errored = @ \cup {cur.relpath}]
    /\ rc' = NoFrame
    /\ pc' = "progress"
    /\ UNCHANGED <<ledgerVars, obs, message, run, stateFile, failedFile,
                   DONE, FAILED, KNOWN_ALBUMS, sync_age, LAST_SYNC_UPLOADS,
                   summary, files, i, processed_count, cur>>

\* main's progress line, which loads the ledger (lines 1040-1050).
Progress ==
    /\ pc = "progress"
    /\ IF processed_count % 100 = 0 \/ i = Len(files)
       THEN \E real \in RealUsage :
               file' = load_daily_quota(file, day, real,
                                        INITIAL_API_REQUESTS).file
       ELSE file' = file
    /\ i' = i + 1
    /\ cur' = NoCur
    /\ pc' = "loop"
    /\ UNCHANGED <<day, INITIAL_API_REQUESTS, steps, obs, message, run,
                   stateFile, failedFile, DONE, FAILED, KNOWN_ALBUMS,
                   sync_age, LAST_SYNC_UPLOADS, METRICS, summary, files,
                   processed_count, rc, hist>>

\* The loop is over: save_summary() and the normal end (lines 1052-1055).
Finish ==
    /\ pc = "loop"
    /\ i > Len(files)
    /\ \E real \in RealUsage :
        LET r == save_summary(file, day, real, INITIAL_API_REQUESTS, METRICS)
        IN /\ file' = r.file
           /\ summary' = r.summary
    /\ ProcessEnds
    /\ UNCHANGED <<day, INITIAL_API_REQUESTS, steps, obs, message, run,
                   stateFile, failedFile, METRICS, hist>>

\* midnight in the reference timezone, at any point of a run or between runs
Midnight ==
    /\ day < MaxMainDay
    /\ NextDay

NextMain ==
    \/ StartRun
    \/ RunCmdPreflight
    \/ AttemptSuccess
    \/ AttemptDailyQuota
    \/ AttemptPermanent
    \/ AttemptGateStop
    \/ AttemptRetry
    \/ AttemptExhausted
    \/ ListDriveFilesReturn
    \/ SkipDone
    \/ SkipFailed
    \/ SkipOther
    \/ UploadFileByteStop
    \/ UploadFileStart
    \/ UploadFileSuccess
    \/ UploadFileQuota
    \/ UploadFilePermanent
    \/ UploadFileRetryable
    \/ Progress
    \/ Finish
    \/ Midnight

SpecMain == InitMain /\ [][NextMain]_vars

-----------------------------------------------------------------------------
(* run_cmd on its own.  SpecRunCmd calls run_cmd up to MaxSteps times, one *)
(* invocation after the other in one process, and keeps in obs what each   *)
(* step of the invocation did.                                             *)

\* the ledgers the first invocation can find: below the stop line, and one
\* request below it
RunCmdInitFiles ==
    {QuotaData(0, 9000, 640, "none"), QuotaData(0, 9499, 640, "none")}

\* the retries arguments of the invocations (3 is run_cmd's default)
RetriesSet == {1, 3}

InitRunCmd ==
    /\ day = 0
    /\ file \in RunCmdInitFiles
    /\ INITIAL_API_REQUESTS = None
    /\ steps = 0
    /\ obs = NoObs
    /\ message = NoMessage
    /\ NoProgram

\* run_cmd(cmd, retries, cooldown=5, is_gphotos_api, estimated_requests=1)
\* is called (line 638).
RunCmdCall ==
    /\ pc = "idle"
    /\ steps < MaxSteps
    /\ steps' = steps + 1
    /\ \E gphotos \in BOOLEAN, retries \in RetriesSet :
        /\ rc' = Frame("call", gphotos, retries, 5, 1, file, day)
        /\ pc' = IF gphotos THEN "preflight" ELSE "attempt"
    /\ obs' = NoObs
    /\ UNCHANGED <<day, file, INITIAL_API_REQUESTS, message, run, stateFile,
                   failedFile, DONE, FAILED, KNOWN_ALBUMS, sync_age,
                   LAST_SYNC_UPLOADS, METRICS, summary, files, i,
                   processed_count, cur, hist>>

\* The invocation is over: its result or its exception is the caller's.
RunCmdReturn ==
    /\ pc = "returned"
    /\ rc.caller = "call"
    /\ pc' = "idle"
    /\ rc' = NoFrame
    /\ obs' = NoObs
    /\ UNCHANGED <<ledgerVars, message, run, stateFile, failedFile, DONE,
                   FAILED, KNOWN_ALBUMS, sync_age, LAST_SYNC_UPLOADS, METRICS,
                   summary, files, i, processed_count, cur, hist>>

NextRunCmd ==
    \/ RunCmdCall
    \/ RunCmdPreflight
    \/ AttemptSuccess
    \/ AttemptDailyQuota
    \/ AttemptPermanent
    \/ AttemptGateStop
    \/ AttemptRetry
    \/ AttemptExhausted
    \/ RunCmdReturn

SpecRunCmd == InitRunCmd /\ [][NextRunCmd]_vars

-----------------------------------------------------------------------------
(* The ledger over its writes.  SpecHistory runs the ledger operations,    *)
(* one after the other, in a process that can be restarted, on a ledger    *)
(* file that can become unreadable, and notes for every operation the      *)
(* file it found and the day it read.  run_cmd reaches the ledger through  *)
(* sync_quota_from_api and through load_daily_quota (in check_api_quota)   *)
(* only, so its calls are sequences of these operations.                   *)

\* the ledger files the first process can find
HistoryInitFiles == {AbsentFile, QuotaData(0, 9000, 640, "none")}

\* whether the load_daily_quota of an operation takes the manual override
\* (lines 431-436 and 451-453)
override_applied(f, d, real, init) ==
    LET q == load_daily_quota(f, d, real, init)
    IN q.file.quota_source = "manual" /\ q.file # f

\* the mutators of the ledger (lines 489-525)
Mutators ==
    {"increment_api_request", "decrement_api_requests",
     "increment_upload_bytes"}

InitHistory ==
    /\ day = 0
    /\ file \in HistoryInitFiles
    /\ INITIAL_API_REQUESTS \in InitialSet
    /\ steps = 0
    /\ obs = NoObs
    /\ message = NoMessage
    /\ NoProgram

\* An operation op of the process that ends with the file f2, written under
\* the date d2: obs is what it found and did (pre the file it found,
\* read_day the date at its load, loaded the request count its load
\* returned, applied whether its load took the manual override, again
\* whether the process had taken it before), hist.last the last readable
\* file before it.
Noted(op, real, loaded, bytes_count, applied, f2, d2) ==
    /\ steps' = steps + 1
    /\ file' = f2
    /\ day' = d2
    /\ obs' = [op |-> op, pre |-> file, read_day |-> day, real |-> real,
               loaded |-> loaded, bytes_count |-> bytes_count,
               applied |-> applied, again |-> hist.applied]
    /\ hist' = [hist EXCEPT !.applied = @ \/ applied,
                            !.last = IF file.kind = "ok" THEN file ELSE @]
    /\ UNCHANGED <<INITIAL_API_REQUESTS, message, pc, run, stateFile,
                   failedFile, DONE, FAILED, KNOWN_ALBUMS, sync_age,
                   LAST_SYNC_UPLOADS, METRICS, summary, files, i,
                   processed_count, cur, rc>>

NotedLoad ==
    /\ steps < MaxSteps
    /\ \E real \in RealUsage :
        LET q == load_daily_quota(file, day, real, INITIAL_API_REQUESTS)
        IN Noted("load_daily_quota", real, q.api_requests, 0,
                 override_applied(file, day, real, INITIAL_API_REQUESTS),
                 q.file, day)

NotedSync ==
    /\ steps < MaxSteps
    /\ \E real \in RealUsage :
        LET r == sync_quota_from_api(file, day, real)
        IN Noted("sync_quota_from_api", real, r.file.api_requests, 0, FALSE,
                 r.file, day)

NotedIncrement ==
    /\ steps < MaxSteps
    /\ \E real \in RealUsage, d2 \in WriteDays(day) :
        LET r == increment_api_request(file, day, d2, real,
                                       INITIAL_API_REQUESTS)
        IN Noted("increment_api_request", real, r.loaded, 0,
                 override_applied(file, day, real, INITIAL_API_REQUESTS),
                 r.file, d2)

NotedDecrement ==
    /\ steps < MaxSteps
    /\ \E real \in RealUsage, d2 \in WriteDays(day) :
        LET r == decrement_api_requests(file, day, d2, real,
                                        INITIAL_API_REQUESTS, 1)
        IN Noted("decrement_api_requests", real, r.loaded, 0,
                 override_applied(file, day, real, INITIAL_API_REQUESTS),
                 r.file, d2)

NotedUploadBytes ==
    /\ steps < MaxSteps
    /\ \E real \in RealUsage, d2 \in WriteDays(day) :
        LET r == increment_upload_bytes(file, day, d2, real,
                                        INITIAL_API_REQUESTS, 640)
        IN Noted("increment_upload_bytes", real,
                 load_daily_quota(file, day, real,
                                  INITIAL_API_REQUESTS).api_requests,
                 640,
                 override_applied(file, day, real, INITIAL_API_REQUESTS),
                 r.file, d2)

\* The ledger file becomes unreadable: what load_daily_quota's
\* except Exception (line 442) is there for.  hist.last keeps the record
\* that is lost.
Unreadable ==
    /\ file.kind = "ok"
    /\ file' = CorruptFile
    /\ obs' = NoObs
    /\ hist' = [hist EXCEPT !.last = file]
    /\ UNCHANGED <<day, INITIAL_API_REQUESTS, steps, message, pc, run,
                   stateFile, failedFile, DONE, FAILED, KNOWN_ALBUMS,
                   sync_age, LAST_SYNC_UPLOADS, METRICS, summary, files, i,
                   processed_count, cur, rc>>

\* The process ends and another one starts, with its own environment.
Restart ==
    /\ steps < MaxSteps
    /\ steps' = steps + 1
    /\ INITIAL_API_REQUESTS' \in InitialSet
    /\ hist' = [hist EXCEPT !.applied = FALSE]
    /\ obs' = NoObs
    /\ UNCHANGED <<day, file, message, pc, run, stateFile, failedFile, DONE,
                   FAILED, KNOWN_ALBUMS, sync_age, LAST_SYNC_UPLOADS, METRICS,
                   summary, files, i, processed_count, cur, rc>>

NextHistory ==
    \/ NotedLoad
    \/ NotedSync
    \/ NotedIncrement
    \/ NotedDecrement
    \/ NotedUploadBytes
    \/ Unreadable
    \/ Restart
    \/ NextDay

SpecHistory == InitHistory /\ [][NextHistory]_vars

-----------------------------------------------------------------------------
(* The runs of SpecMain that start with no STATE_FILE and no manual        *)
(* override; FAILED_FILE is absent or the legacy list.                     *)

InitUpload ==
    /\ InitMain
    /\ INITIAL_API_REQUESTS = None
    /\ stateFile.kind = "absent"

SpecUpload == InitUpload /\ [][NextMain]_vars

-----------------------------------------------------------------------------
(* The script run again every day on a listing that does not change.       *)
(* SpecDaily has one process per day, each started after the one before    *)
(* has ended, in the environment the progress of the uploads is stated     *)
(* for: the listing call succeeds, every transfer succeeds or is rejected  *)
(* for good at its first attempt, the request count stays below its stop   *)
(* line and midnight falls between two runs.  The date is kept modulo      *)
(* DateCycle: the ledger operations only compare the date of the record    *)
(* with today's, and every run leaves a record of its own day.             *)

DateCycle == 2

\* What rclone lsjson reports every day: a file that fits, a file whose
\* size alone is over STOP_THRESHOLD percent of UPLOAD_QUOTA_LIMIT, and a
\* file that fits.
DailyListing ==
    <<[relpath |-> "2021-03-01_a.jpg", file_size |-> 640,
       album |-> "2021_03_photo", kind |-> "photo"],
      [relpath |-> "2021-03-02_b.jpg", file_size |-> 49000,
       album |-> "2021_03_photo", kind |-> "photo"],
      [relpath |-> "2021-03-03_c.jpg", file_size |-> 640,
       album |-> "2021_03_photo", kind |-> "photo"]>>

\* the listed files with a photo or video extension
DailyMedia ==
    {DailyListing[k].relpath : k \in {n \in 1..Len(DailyListing) :
        DailyListing[n].kind \in {"photo", "video"}}}

\* what the first run finds in FAILED_FILE: nothing, or the oversized file
\* recorded as rejected
DailyInitFailed ==
    {FailedFile("absent", EmptyDict, {}),
     FailedFile("dict", [p \in {"2021-03-02_b.jpg"} |-> rejected_entry(0)],
                {})}

InitDaily ==
    /\ day = 0
    /\ file \in MainInitFiles
    /\ INITIAL_API_REQUESTS = None
    /\ steps = 0
    /\ obs = NoObs
    /\ message = NoMessage
    /\ pc = "idle"
    /\ run = 0
    /\ stateFile = StateFile("absent", {})
    /\ failedFile \in DailyInitFailed
    /\ DONE = {}
    /\ FAILED = EmptyDict
    /\ KNOWN_ALBUMS = {}
    /\ sync_age = None
    /\ LAST_SYNC_UPLOADS = 0
    /\ METRICS = NoMetrics
    /\ summary = NoSummary
    /\ files = << >>
    /\ i = 0
    /\ processed_count = 0
    /\ cur = NoCur
    /\ rc = NoFrame
    /\ hist = NoHist

\* The next day's process: module load (lines 62-116) and the start of
\* main() (lines 949-996), up to the call of run_cmd in list_drive_files.
DailyStart ==
    /\ pc = "idle"
    /\ day' = (day + 1) % DateCycle
    /\ DONE' = load_DONE(stateFile)
    /\ FAILED' = load_FAILED(failedFile)
    /\ KNOWN_ALBUMS' = {}
    /\ sync_age' = None
    /\ LAST_SYNC_UPLOADS' = 0
    /\ METRICS' = NoMetrics
    /\ summary' = NoSummary
    /\ files' = << >>
    /\ i' = 0
    /\ processed_count' = 0
    /\ cur' = NoCur
    /\ hist' = [start_done |-> stateFile.items,
                start_failed |-> failed_paths(failedFile),
                passed |-> {}, errored |-> {},
                prev_errored |-> hist.errored,
                applied |-> FALSE, last |-> AbsentFile]
    /\ \E real \in RealUsage :
        LET q == load_daily_quota(file, day', real, INITIAL_API_REQUESTS)
        IN /\ file' = q.file
           /\ rc' = Frame("list", FALSE, 3, 5, 1, q.file, day')
    /\ pc' = "attempt"
    /\ obs' = NoObs
    /\ UNCHANGED <<INITIAL_API_REQUESTS, steps, message, run, stateFile,
                   failedFile>>

\* list_drive_files() after its run_cmd call returned (lines 761-773)
DailyListDriveFiles ==
    /\ pc = "returned"
    /\ rc.caller = "list"
    /\ files' = IF rc.result = "success"
                THEN SelectSeq(DailyListing, is_listed) ELSE << >>
    /\ METRICS' = [METRICS EXCEPT !.processed_files = Len(files')]
    /\ i' = 1
    /\ rc' = NoFrame
    /\ pc' = "loop"
    /\ UNCHANGED <<ledgerVars, obs, message, run, stateFile, failedFile,
                   DONE, FAILED, KNOWN_ALBUMS, sync_age, LAST_SYNC_UPLOADS,
                   summary, processed_count, cur, hist>>

\* The environment of the daily runs, as a condition on every step.
DailyEnvironment ==
    /\ pc # "idle" => day' = day
    /\ (pc = "attempt" /\ rc.caller = "list") => rc'.result = "success"
    /\ file'.kind = "ok" => file'.api_requests < stop_threshold_limit

NextDaily ==
    \/ DailyStart /\ DailyEnvironment
    \/ DailyListDriveFiles /\ DailyEnvironment
    \/ RunCmdPreflight /\ DailyEnvironment
    \/ AttemptSuccess /\ DailyEnvironment
    \/ AttemptPermanent /\ DailyEnvironment
    \/ SkipDone /\ DailyEnvironment
    \/ SkipFailed /\ DailyEnvironment
    \/ UploadFileByteStop /\ DailyEnvironment
    \/ UploadFileStart /\ DailyEnvironment
    \/ UploadFileSuccess /\ DailyEnvironment
    \/ UploadFilePermanent /\ DailyEnvironment
    \/ Progress /\ DailyEnvironment
    \/ Finish /\ DailyEnvironment

\* The script is run again every day and a process that has started goes
\* on to its end: some step is always taken.
SpecDaily == InitDaily /\ [][NextDaily]_vars /\ WF_vars(NextDaily)

-----------------------------------------------------------------------------
(* Properties of the ledger and the gates, checked under SpecLedger.       *)

\* C3: check_api_quota returns False whenever the requests_used it loaded
\* is at least STOP_THRESHOLD * API_QUOTA_LIMIT, for every projected amount,
\* 0 included.
C3_StopAtStopLine ==
    (obs.op = "check_api_quota"
       /\ obs.api_requests * 100 >= STOP_THRESHOLD * API_QUOTA_LIMIT)
    => obs.ok = FALSE

C3_Witness ==
    /\ obs.op = "check_api_quota"
    /\ obs.api_requests = 9500
    /\ obs.requests_needed = 0
    /\ obs.ok = FALSE

\* C4: check_api_quota returns False whenever the requests_used it loaded
\* is at least API_QUOTA_LIMIT - SAFETY_RESERVE, whatever the projected
\* amount; with 9750 of 10000 used and a reserve of 300 it returns False.
C4_StopAtReserve ==
    (obs.op = "check_api_quota"
       /\ obs.api_requests >= API_QUOTA_LIMIT - SAFETY_RESERVE)
    => obs.ok = FALSE

C4_Witness ==
    /\ API_QUOTA_LIMIT = 10000 /\ SAFETY_RESERVE = 300 /\ STOP_THRESHOLD = 95
    /\ obs.op = "check_api_quota"
    /\ obs.api_requests = 9750
    /\ obs.requests_needed = 150
    /\ obs.ok = FALSE

\* C5: check_api_quota returns False whenever requests_used plus the
\* projected amount reaches STOP_THRESHOLD * API_QUOTA_LIMIT, and the check
\* leaves in the ledger the requests_used it loaded, not the projection.
C5_ProjectiveStop ==
    obs.op = "check_api_quota" =>
        /\ ((obs.api_requests + obs.requests_needed) * 100
                >= STOP_THRESHOLD * API_QUOTA_LIMIT => obs.ok = FALSE)
        /\ file.kind = "ok"
        /\ file.api_requests = obs.api_requests

C5_Witness ==
    /\ obs.op = "check_api_quota"
    /\ obs.api_requests = 9400
    /\ obs.requests_needed = 150
    /\ obs.api_requests < API_QUOTA_LIMIT - SAFETY_RESERVE
    /\ obs.ok = FALSE
    /\ file.api_requests = 9400

\* C7: a ledger record saved on another day, loaded with no authoritative
\* value and no manual override, yields requests_used = 0 and
\* bytes_uploaded = 0, and a record dated today with zero counters is
\* persisted.
C7_NewDayResets ==
    (obs.op = "load_daily_quota"
       /\ obs.pre.kind = "ok" /\ obs.pre.date # day
       /\ obs.real = None /\ INITIAL_API_REQUESTS = None)
    => /\ obs.api_requests = 0
       /\ obs.uploaded_bytes = 0
       /\ file.kind = "ok"
       /\ file.date = day
       /\ file.api_requests = 0
       /\ file.uploaded_bytes = 0

C7_Witness ==
    /\ obs.op = "load_daily_quota"
    /\ obs.pre.kind = "ok" /\ obs.pre.date < day
    /\ obs.pre.api_requests > 0 /\ obs.pre.uploaded_bytes > 0
    /\ obs.real = None /\ INITIAL_API_REQUESTS = None
    /\ file = QuotaData(day, 0, 0, "local")

\* C8: the persisted requests_used is never negative, whatever increments
\* and decrements (with non-negative counts) were made.
C8_RequestsNonNegative ==
    file.kind = "ok" => file.api_requests >= 0

C8_Witness ==
    /\ obs.op = "decrement_api_requests"
    /\ obs.count > obs.loaded
    /\ obs.loaded > 0
    /\ obs.ret = 0
    /\ file.api_requests = 0

-----------------------------------------------------------------------------
(* Properties of the classifiers, checked under SpecText.                  *)

\* C10: is_nonrecoverable_media_error returns True exactly for the texts
\* that hold one of the permanent-rejection phrases up to letter case and
\* the kind of apostrophe: True for the create-this-media-item message in
\* any letter case and for the Preview message with a typographic or a
\* plain apostrophe, False for the empty text and for a text with none of
\* the phrases.
C10_PermanentExactly ==
    obs.op = "is_nonrecoverable_media_error" =>
        (obs.ret = TRUE <=> message.core \in PhraseCores)

C10_Witness ==
    /\ obs.op = "is_nonrecoverable_media_error"
    /\ Cores[message.core] = core_preview_rsquo
    /\ message.prefix = 1 /\ message.suffix = 1
    /\ message.case = "as_written"
    /\ obs.ret = TRUE

-----------------------------------------------------------------------------
(* Properties of the sync process.  The violated ones (C1, C9, C12) are    *)
(* found under SpecMain, the others are checked under SpecUpload.          *)

\* a quota-relevant run_cmd invocation has just ended, with this result
Ended(result) ==
    /\ pc = "returned"
    /\ rc.is_gphotos_api
    /\ rc.result = result

\* C1: after a quota-relevant run_cmd invocation whose attempt exits 0, the
\* ledger's api_requests equals its value before that attempt plus the
\* estimated cost passed to the invocation.  run_cmd does not do this: it
\* counts nothing on success (line 682), and there is no cost history.
C1_SuccessCountsCost ==
    Ended("success") =>
        file.api_requests = rc.before.api_requests + rc.estimated_requests

C6_NeverReprocessed ==
    hist.passed \cap (hist.start_done \cup hist.start_failed) = {}

\* a second run that found files persisted as done and as failed, went over
\* the whole listing and passed another file to upload_file
C6_Witness ==
    /\ run = 2
    /\ pc = "loop"
    /\ i > Len(files)
    /\ Len(files) > 0
    /\ hist.start_failed # {}
    /\ hist.start_done # {}
    /\ hist.passed # {}

\* C9: within one process the first-use flag of an album stays set until a
\* transfer into the album has succeeded, so that the first successful
\* transfer is the one charged as first use.  ensure_album consumes the flag
\* at the first call, before the transfer, and upload_file passes the same
\* estimated_requests whatever the flag.
C9_FirstUseUntilSuccess ==
    (pc \in {"preflight", "attempt", "returned"} /\ rc.caller = "upload") =>
        (cur.is_first_in_album <=> METRICS.by_album[cur.album] = 0)

\* upload_file raised QuotaExceededError and main's handler runs in this
\* step: the byte gate refused the file of position i, or run_cmd raised
\* and upload_file re-raises
QuotaRaisedByUpload ==
    \/ IsUploaded /\ pc' \notin {"loop", "preflight"}
    \/ pc = "returned" /\ rc.caller = "upload" /\ rc.result = "quota"
                       /\ pc' # pc

\* the file upload_file was called with when it raised
RaisedFor == IF pc = "loop" THEN files[i].relpath ELSE cur.relpath

\* C11: once upload_file raises QuotaExceededError (byte gate, request gate
\* or daily-quota diagnostic), no further file is passed to upload_file, the
\* Done set is persisted, the summary is written with quota_exceeded set
\* and the reset time, and the process ends.
C11_QuotaStopEndsRun ==
    [][QuotaRaisedByUpload =>
         /\ pc' = "idle"
         /\ hist'.passed = hist.passed \cup {RaisedFor}
         /\ stateFile' = StateFile("ok", DONE)
         /\ summary'.written
         /\ summary'.quota_exceeded = TRUE
         /\ summary'.quota_reset_time = day + 1
         /\ summary'.uploaded_files = METRICS.uploaded_files]_vars

\* a run stopped on the quota after it had uploaded a file, with a listed
\* media file never passed to upload_file
C11_Witness ==
    /\ pc = "idle"
    /\ summary.written
    /\ summary.quota_exceeded = TRUE
    /\ summary.uploaded_files > 0
    /\ stateFile.items # {}

RetriesExhausted ==
    /\ Ended("error")
    /\ rc.caller = "upload"
    /\ rc.attempt = rc.retries
    /\ \/ rc.error = Len(StderrTexts) + 2
       \/ rc.error <= Len(StderrTexts) /\ IsRetryable(rc.error)

PermanentlyRejected ==
    /\ Ended("error")
    /\ rc.caller = "upload"
    /\ rc.error <= Len(StderrTexts)
    /\ StderrClass[rc.error].permanent

\* C14: when the failure is a permanent media rejection, no further attempt
\* is made, the file is added to the persisted Done set and to the persisted
\* Failed mapping with a reason and a timestamp, and the run goes on.
C14_PermanentRejectionIsRecorded ==
    /\ [][(PermanentlyRejected /\ pc' # pc) =>
            /\ pc' = "progress"
            /\ cur.relpath \in DONE' /\ cur.relpath \in stateFile'.items
            /\ failedFile'.kind = "dict"
            /\ cur.relpath \in DOMAIN failedFile'.dict
            /\ failedFile'.dict[cur.relpath] = rejected_entry(day)
            /\ FAILED' = failedFile'.dict
            /\ files' = files /\ i' = i]_vars
    /\ [][(pc = "attempt" /\ rc'.result = "error"
             /\ rc'.error <= Len(StderrTexts)
             /\ StderrClass[rc'.error].permanent) =>
            (pc' = "returned" /\ rc'.attempt = rc.attempt
               /\ rc'.executions = rc.attempt)]_vars

\* a file rejected at its second attempt, recorded, and the loop going on
C14_Witness ==
    /\ pc = "progress"
    /\ cur.relpath \in DOMAIN FAILED
    /\ cur.relpath \notin hist.start_failed
    /\ cur.relpath \in stateFile.items
    /\ failedFile.kind = "dict"
    /\ i < Len(files)

-----------------------------------------------------------------------------
(* Properties of the ledger over its writes, checked under SpecHistory,    *)
(* and of the recovery of an unreadable ledger, checked under SpecLedger.  *)

\* the last operation found a readable record and left one of the same date
SameDayWrite ==
    /\ obs.op # "none"
    /\ obs.pre.kind = "ok"
    /\ file.kind = "ok"
    /\ obs.pre.date = file.date

\* C15: the manual override is applied at most once in a process: after it
\* has been taken, no later load, mutator or day rollover of the same
\* process takes it again.
C15_OverrideAppliedAtMostOnce ==
    obs.op # "none" => ~(obs.applied /\ obs.again)

\* C16: within one day the persisted requests_used never decreases from one
\* ledger write to the next except through decrement_api_requests.
C16_RequestsNeverDecrease ==
    SameDayWrite =>
        \/ obs.op = "decrement_api_requests"
        \/ file.api_requests >= obs.pre.api_requests

\* C16, amended: within one day the persisted requests_used decreases from
\* one ledger write to the next only through decrement_api_requests or when
\* the operation overwrote it with the value of the monitoring API.
C16_RequestsDecreaseOnlyByAuthority ==
    SameDayWrite =>
        \/ obs.op = "decrement_api_requests"
        \/ file.api_requests >= obs.pre.api_requests
        \/ /\ obs.real # None
           /\ obs.loaded = obs.real
           /\ file.api_requests >= obs.loaded

\* the monitoring API lowered the count the manual override had set
C16_Witness ==
    /\ SameDayWrite
    /\ obs.op \in {"load_daily_quota", "sync_quota_from_api"}
    /\ obs.pre.quota_source = "manual"
    /\ obs.real # None
    /\ file.api_requests < obs.pre.api_requests

C19_RolloverDetectedByMutators ==
    (obs.op \in Mutators /\ obs.read_day < file.date) =>
        /\ file.uploaded_bytes <= obs.bytes_count
        /\ (obs.real = None /\ INITIAL_API_REQUESTS = None)
             => file.api_requests <= 1

-----------------------------------------------------------------------------
(* A property of run_cmd, checked under SpecUpload.                        *)

\* C20: when the gate before the first attempt of a quota-relevant
\* operation answers Stop, run_cmd raises QuotaExceededError before the
\* remote command executes even once; for an operation that is not
\* quota-relevant the gate is never consulted: no such invocation reaches
\* the pre-flight step, none is stopped before its first execution, and
\* the ledger stays as the invocation found it unless an attempt reported
\* the daily quota.
C20_PreflightStopBeforeExecution ==
    /\ [][(pc = "preflight" /\ pc' # pc) =>
            /\ rc.is_gphotos_api
            /\ rc'.executions = 0
            /\ IF api_gate(file'.api_requests, 0).ok
               THEN pc' = "attempt" /\ rc'.result = "none"
               ELSE pc' = "returned" /\ rc'.result = "quota"]_vars
    /\ []((pc \in {"attempt", "returned"} /\ ~rc.is_gphotos_api) =>
            /\ rc.result = "quota" => rc.executions > 0
            /\ rc.result # "quota" => file = rc.first)

\* the gate stopped an upload before its first execution
C20_Witness ==
    /\ pc = "returned"
    /\ rc.is_gphotos_api
    /\ rc.result = "quota"
    /\ rc.executions = 0
    /\ ~api_gate(file.api_requests, 0).ok

-----------------------------------------------------------------------------
(* Properties of run_cmd, checked under SpecRunCmd.                        *)

\* the last step of the invocation was an attempt that failed
AttemptFailed == obs.op = "failed"

\* C21: the gate before the first attempt projects the estimated cost: a
\* quota-relevant invocation with estimated cost c starts no attempt when
\* requests_used + c reaches the stop line.
C21_PreflightProjectsCost ==
    (pc = "attempt" /\ rc.is_gphotos_api /\ rc.executions = 0) =>
        rc.first.api_requests + rc.estimated_requests < stop_threshold_limit

\* C22: an attempt whose stderr reads as the daily quota is never retried,
\* also when the text reads as a rate limit or as a permanent rejection
\* too: run_cmd raises QuotaExceededError on that attempt, without a sleep
\* and without another execution.
C22_DailyQuotaNeverRetried ==
    [][(pc = "attempt" /\ obs'.op = "failed"
          /\ StderrClass[obs'.stderr].daily) =>
         /\ pc' = "returned"
         /\ rc'.result = "quota"
         /\ rc'.attempt = rc.attempt
         /\ rc'.executions = rc.executions + 1
         /\ obs'.wait = 0]_vars

\* the second attempt answered with a text that is the daily quota, a rate
\* limit and a permanent rejection at once
C22_Witness ==
    /\ pc = "returned"
    /\ rc.result = "quota"
    /\ AttemptFailed
    /\ StderrClass[obs.stderr].daily
    /\ StderrClass[obs.stderr].rate
    /\ StderrClass[obs.stderr].permanent
    /\ rc.attempt = 2

\* C23: when an attempt of a quota-relevant operation reads as the daily
\* quota, the estimated cost is added to requests_used before
\* QuotaExceededError is raised.
C23_DailyQuotaCommitsCost ==
    (pc = "returned" /\ rc.is_gphotos_api /\ AttemptFailed
       /\ StderrClass[obs.stderr].daily) =>
        file.api_requests = obs.pre.api_requests + rc.estimated_requests

\* C24: after the failed attempt k that is neither the daily quota nor a
\* permanent rejection and that the gate lets pass, run_cmd sleeps
\* cooldown * k * 2 when the text reads as a rate limit and cooldown * k
\* otherwise, and only then goes on to attempt k + 1; for texts of one
\* kind the sleep after attempt k + 1 is longer than the one after k.
C24_BackoffGrowsWithAttempt ==
    [][(pc = "attempt" /\ obs'.op = "failed" /\ IsRetryable(obs'.stderr)
          /\ rc'.result # "quota") =>
         /\ obs'.attempt = rc.attempt
         /\ obs'.wait = IF StderrClass[obs'.stderr].rate
                        THEN rc.cooldown * rc.attempt * 2
                        ELSE rc.cooldown * rc.attempt
         /\ IF rc.attempt < rc.retries
            THEN pc' = "attempt" /\ rc'.attempt = rc.attempt + 1
            ELSE pc' = "returned" /\ rc'.result = "error"
         /\ (AttemptFailed /\ StderrClass[obs.stderr].rate
                                = StderrClass[obs'.stderr].rate)
              => obs'.wait > obs.wait]_vars

\* the third attempt is about to start after two rate-limited ones: the
\* second sleep was twice the first
C24_Witness ==
    /\ pc = "attempt"
    /\ rc.attempt = 3
    /\ AttemptFailed
    /\ StderrClass[obs.stderr].rate
    /\ obs.wait = rc.cooldown * 2 * 2

\* C25: every invocation of run_cmd executes the command at most retries
\* times, each step of its loop being one execution; when every attempt
\* fails with no daily quota, permanent rejection or gate stop, it executes
\* the command exactly retries times and raises an error that is neither
\* QuotaExceededError nor read as a permanent rejection.
C25_AtMostRetriesExecutions ==
    /\ [](rc.executions <= rc.retries)
    /\ [][pc = "attempt" => rc'.executions = rc.executions + 1]_vars
    /\ []((pc = "returned" /\ AttemptFailed /\ IsRetryable(obs.stderr)
             /\ rc.result # "quota") =>
            /\ rc.result = "error"
            /\ rc.executions = rc.retries
            /\ ~ErrorIsPermanent[rc.error])

\* three attempts failed and the generic error is raised
C25_Witness ==
    /\ pc = "returned"
    /\ rc.result = "error"
    /\ rc.retries = 3
    /\ rc.executions = 3
    /\ AttemptFailed
    /\ IsRetryable(obs.stderr)

\* C26: for a quota-relevant operation the gate is evaluated again on the
\* current ledger after a failed attempt, before the next one: when
\* requests_used has crossed the stop line since the check before the first
\* attempt, run_cmd raises QuotaExceededError and does not execute the
\* command again.
C26_GateBetweenAttempts ==
    [][(pc = "attempt" /\ rc.is_gphotos_api /\ obs'.op = "failed"
          /\ IsRetryable(obs'.stderr)) =>
         IF api_gate(file'.api_requests, 0).ok
         THEN rc'.result # "quota"
         ELSE /\ pc' = "returned"
              /\ rc'.result = "quota"
              /\ rc'.attempt = rc.attempt
              /\ obs'.wait = 0]_vars

\* the gate let the first attempt start and stopped the invocation after it
\* had failed: the monitoring API had moved the ledger over the stop line
C26_Witness ==
    /\ pc = "returned"
    /\ rc.result = "quota"
    /\ AttemptFailed
    /\ IsRetryable(obs.stderr)
    /\ api_gate(rc.first.api_requests, 0).ok
    /\ ~api_gate(file.api_requests, 0).ok

-----------------------------------------------------------------------------
(* Properties of the synchronisation with the monitoring API.              *)

\* C27: whenever sync_quota_from_api obtains a request count from the
\* monitoring API, the ledger holds that count as requests_used afterwards,
\* whatever it held before, and bytes_uploaded is as it was before the
\* sync.  Stated for the syncs that find a readable ledger file.
C27_SyncOverwritesRequests ==
    (obs.op = "sync_quota_from_api" /\ obs.real # None
       /\ obs.pre.kind = "ok") =>
        /\ file.kind = "ok"
        /\ file.api_requests = obs.real
        /\ file.uploaded_bytes = obs.pre.uploaded_bytes

\* C28: the monitoring API is queried, and the ledger overwritten with its
\* answer, only when a sync is due (none yet in the process, or the time or
\* the count interval elapsed); between two syncs the gate before the first
\* attempt decides on the stored requests_used and leaves it as it is.
C28_StoredValueBetweenSyncs ==
    (obs.op = "preflight" /\ ~obs.due) =>
        file.api_requests = obs.pre.api_requests

-----------------------------------------------------------------------------
(* Properties of upload_file and of the executor within a run, checked     *)
(* under SpecUpload.                                                       *)

\* C29: upload_file refuses a file, raising QuotaExceededError before the
\* album is taken as known and before run_cmd is entered, exactly when the
\* uploaded_bytes it loads plus the size of the file reach STOP_THRESHOLD
\* percent of UPLOAD_QUOTA_LIMIT; otherwise it marks the album and enters
\* run_cmd.  requests_used has no part in the decision.
C29_ByteGateRefusesUpload ==
    [][(IsUploaded /\ pc' # pc) =>
         IF (file'.uploaded_bytes + files[i].file_size) * 100
                >= STOP_THRESHOLD * UPLOAD_QUOTA_LIMIT
         THEN /\ pc' = "idle"
              /\ obs'.op = "refused"
              /\ obs'.relpath = files[i].relpath
              /\ obs'.uploaded_bytes = file'.uploaded_bytes
              /\ rc' = NoFrame
              /\ summary'.written
              /\ summary'.quota_exceeded = TRUE
         ELSE /\ pc' = "preflight"
              /\ obs'.op # "refused"
              /\ rc'.caller = "upload"
              /\ rc'.executions = 0
              /\ files[i].album \in KNOWN_ALBUMS']_vars

\* a file refused on the bytes with requests_used far below its stop line
C29_Witness ==
    /\ pc = "idle"
    /\ obs.op = "refused"
    /\ obs.uploaded_bytes + obs.file_size
         = (STOP_THRESHOLD * UPLOAD_QUOTA_LIMIT) \div 100
    /\ file.api_requests < stop_threshold_limit
    /\ summary.quota_exceeded = TRUE

\* C30: with no manual override, no step of a run changes the
\* requests_used of today's ledger record within the day, unless the
\* monitoring API answered and its value was written: run_cmd and
\* upload_file never count a request themselves, so with the monitoring API
\* unavailable the gate decides on the same requests_used at every check of
\* the day, however many operations succeed.
C30_ExecutorNeverCounts ==
    [][(INITIAL_API_REQUESTS = None /\ file.kind = "ok" /\ file.date = day
          /\ day' = day) =>
         /\ file'.kind = "ok"
         /\ file'.date = day
         /\ \/ file'.api_requests = file.api_requests
            \/ file'.api_requests \in RealUsage \ {None}]_vars

\* a file has been uploaded and its bytes counted, with requests_used where
\* it was when the run started
C30_Witness ==
    /\ INITIAL_API_REQUESTS = None
    /\ pc = "progress"
    /\ METRICS.uploaded_files = 1
    /\ file.kind = "ok"
    /\ file.date = day
    /\ file.uploaded_bytes = 1280
    /\ file.api_requests = 9400

\* upload_file has been called and has not ended yet
InUploadFile == IsUploaded \/ rc.caller = "upload"

\* the step in which upload_file ends in success
UploadSucceeds ==
    pc = "returned" /\ rc.caller = "upload" /\ rc.result = "success"

\* C31 as stated: the step that ends upload_file in success adds exactly the
\* size of the file to the ledger's bytes_uploaded, puts the file in DONE
\* and in STATE_FILE and adds one to uploaded_files; every other step of
\* upload_file, whichever way the call ends, leaves bytes_uploaded as it is.
C31_BytesFollowSuccess ==
    [][/\ (UploadSucceeds /\ pc' # pc) =>
            /\ file'.uploaded_bytes = file.uploaded_bytes + cur.file_size
            /\ DONE' = DONE \cup {cur.relpath}
            /\ stateFile' = StateFile("ok", DONE')
            /\ METRICS'.uploaded_files = METRICS.uploaded_files + 1
       /\ (InUploadFile /\ ~UploadSucceeds) =>
            file'.uploaded_bytes = file.uploaded_bytes]_vars

\* C31, amended: the same, counted from what load_daily_quota returns: the
\* bytes_uploaded of a record of today, and 0 for a record of an earlier
\* day, which the first load of upload_file after midnight replaces.
C31_BytesFollowSuccessOfTheDay ==
    [][/\ (UploadSucceeds /\ pc' # pc) =>
            /\ file'.uploaded_bytes =
                 (IF file.date = day THEN file.uploaded_bytes ELSE 0)
                   + cur.file_size
            /\ DONE' = DONE \cup {cur.relpath}
            /\ stateFile' = StateFile("ok", DONE')
            /\ METRICS'.uploaded_files = METRICS.uploaded_files + 1
       /\ (InUploadFile /\ ~UploadSucceeds) =>
            \/ file'.uploaded_bytes = file.uploaded_bytes
            \/ /\ file.kind = "ok" => file.date # day
               /\ file'.uploaded_bytes = 0]_vars

\* the second file of a run has been uploaded after midnight: the ledger
\* holds its size alone
C31_Witness ==
    /\ pc = "progress"
    /\ cur.relpath \in DONE
    /\ cur.relpath \in stateFile.items
    /\ METRICS.uploaded_files = 2
    /\ file.date = day
    /\ file.uploaded_bytes = cur.file_size

-----------------------------------------------------------------------------
(* Progress of the daily runs, checked under SpecDaily.                    *)

\* every listed file with a photo or video extension is in STATE_FILE or in
\* FAILED_FILE
AllSettled ==
    DailyMedia \subseteq (load_DONE(stateFile) \cup failed_paths(failedFile))

\* C32: when the script is run once a day on the same listing, every
\* transfer succeeds or is rejected for good and the request gate is open,
\* every listed photo or video is eventually done or failed: no file waits
\* for ever behind a file that the byte gate refuses, such as one whose size
\* alone reaches the stop line of the byte gate.
C32_EveryFileIsSettled == <>AllSettled

====
